---------------------------- MODULE Spec2Model ----------------------------
(***************************************************************************)
(* A model of the type-safe-api code generator (generate.ts, kept here as  *)
(* src/unnamed/part_000): the compilation of a bundled OpenAPI document    *)
(* into the data graph the templates render from.                          *)
(*                                                                         *)
(* Strings of the program that are built, split or re-cased (schema names, *)
(* property names, titles, $ref pointers) are sequences of one-character   *)
(* strings; strings that are only compared (schema types, export kinds,    *)
(* locations) are TLA+ strings.  A JSON object is a record that has        *)
(* exactly the fields the object has, so `"items" in schema` is            *)
(* "items" \in DOMAIN schema.  An ordered JSON object (components.schemas, *)
(* properties) is a sequence of [name, schema] entries in insertion order. *)
(***************************************************************************)
EXTENDS Integers, Sequences, FiniteSets, TLC

VARIABLES
    pc,           \* buildData: the pass that runs next
    inSpec,       \* buildData: the caller's document
    spec,         \* buildData: `let spec`, the document being compiled
    hoisted,      \* the schema names hoisting has registered, in order
    inlinedRefs,  \* buildData: the $refs replaced by the schema they name
    error,        \* the Error thrown: its message and the name it carries
    models,       \* every Model object of the parsed data, by identity
    data,         \* buildData: `const data`, the models and operations
    index,        \* the position of the forEach loop that is running
    inner,        \* the position of the forEach loop nested in it
    stack,        \* the calls of the recursive pass that is running
    visited,      \* the `visited` set of the pass that is running
    enriched,     \* how often each pass has assigned each Model its fields
    args,         \* the run: its template directories and working directory
    fs,           \* the files under the output path, by relative path
    renders,      \* the state of the ejs.renderFile promise of each template
    splitFiles,   \* splitAndWriteFiles: `const splitFiles`
    generatedFilePaths, \* splitAndWriteFiles: `const generatedFilePaths`
    log,          \* the unlinkSync and writeFileSync calls made so far
    refArg,       \* resolveIfRef: `possibleRef`, the node it is called with
    refResult,    \* resolveIfRef, resolveRef: `resolved`
    refCalls      \* the calls of resolveIfRef that have returned

docVars ==
    << pc, inSpec, spec, hoisted, inlinedRefs, error >>

dataVars ==
    << models, data, index, inner, stack, visited, enriched >>

fileVars ==
    << args, fs, renders, splitFiles, generatedFilePaths, log >>

callVars ==
    << refArg, refResult, refCalls >>

vars ==
    << docVars, dataVars, fileVars, callVars >>

\* ------------------------------------------------------------------------
\* Characters and strings
\* ------------------------------------------------------------------------

LowerLetters ==
    << "a","b","c","d","e","f","g","h","i","j","k","l","m",
       "n","o","p","q","r","s","t","u","v","w","x","y","z" >>

UpperLetters ==
    << "A","B","C","D","E","F","G","H","I","J","K","L","M",
       "N","O","P","Q","R","S","T","U","V","W","X","Y","Z" >>

Digits ==
    { "0","1","2","3","4","5","6","7","8","9" }

Range(f) ==
    { f[i] : i \in DOMAIN f }

IsLower(c) ==
    c \in Range(LowerLetters)

IsUpper(c) ==
    c \in Range(UpperLetters)

IsDigit(c) ==
    c \in Digits

IndexIn(c, letters) ==
    CHOOSE i \in DOMAIN letters : letters[i] = c

ToUpperChar(c) ==
    IF IsLower(c) THEN UpperLetters[IndexIn(c, LowerLetters)] ELSE c

ToLowerChar(c) ==
    IF IsUpper(c) THEN LowerLetters[IndexIn(c, UpperLetters)] ELSE c

toLowerCase(str) ==
    [ i \in DOMAIN str |-> ToLowerChar(str[i]) ]

\* lodash upperFirst
upperFirst(str) ==
    IF str = << >> THEN str ELSE << ToUpperChar(str[1]) >> \o Tail(str)

RECURSIVE Concat(_)
\* Array.prototype.join('') of a sequence of strings
Concat(parts) ==
    IF parts = << >> THEN << >> ELSE Head(parts) \o Concat(Tail(parts))

MapSeq(Op(_), s) ==
    [ i \in DOMAIN s |-> Op(s[i]) ]

RECURSIVE FlatMap(_, _)
FlatMap(Op(_), s) ==
    IF s = << >> THEN << >> ELSE Op(Head(s)) \o FlatMap(Op, Tail(s))

RECURSIVE SelectIdx(_, _, _)
\* the indices i of s, in order, with Test(i)
SelectIdx(Test(_), n, i) ==
    IF i > n THEN << >>
    ELSE (IF Test(i) THEN << i >> ELSE << >>) \o SelectIdx(Test, n, i + 1)

StartsWith(str, prefix) ==
    /\ Len(str) >= Len(prefix)
    /\ SubSeq(str, 1, Len(prefix)) = prefix


RECURSIVE ReplaceAll(_, _, _)
\* String.prototype.replace with a global literal pattern: leftmost,
\* non-overlapping, the replacement is not scanned again
ReplaceAll(str, pat, rep) ==
    IF Len(str) < Len(pat) THEN str
    ELSE IF SubSeq(str, 1, Len(pat)) = pat
         THEN rep \o ReplaceAll(SubSeq(str, Len(pat) + 1, Len(str)), pat, rep)
         ELSE << Head(str) >> \o ReplaceAll(Tail(str), pat, rep)

RECURSIVE SplitOn(_, _, _)
\* String.prototype.split(sep) for a one-character separator; cur is the
\* segment being read
SplitOn(str, sep, cur) ==
    IF str = << >> THEN << cur >>
    ELSE IF Head(str) = sep
         THEN << cur >> \o SplitOn(Tail(str), sep, << >>)
         ELSE SplitOn(Tail(str), sep, Append(cur, Head(str)))

\* lodash trim(str, `"'`): strips the quote characters at both ends
RECURSIVE TrimLeft(_)
TrimLeft(str) ==
    IF str # << >> /\ Head(str) \in { "\"", "'" } THEN TrimLeft(Tail(str)) ELSE str

RECURSIVE TrimRight(_)
TrimRight(str) ==
    IF str # << >> /\ str[Len(str)] \in { "\"", "'" }
    THEN TrimRight(SubSeq(str, 1, Len(str) - 1))
    ELSE str

trim(str) ==
    TrimRight(TrimLeft(str))

\* the length of the longest run of characters satisfying a class, from i
RECURSIVE RunLower(_, _)
RunLower(str, i) ==
    IF i <= Len(str) /\ IsLower(str[i]) THEN 1 + RunLower(str, i + 1) ELSE 0

RECURSIVE RunUpper(_, _)
RunUpper(str, i) ==
    IF i <= Len(str) /\ IsUpper(str[i]) THEN 1 + RunUpper(str, i + 1) ELSE 0

RECURSIVE RunDigit(_, _)
RunDigit(str, i) ==
    IF i <= Len(str) /\ IsDigit(str[i]) THEN 1 + RunDigit(str, i + 1) ELSE 0

\* lodash words() on ASCII input: the length of the word that starts at i
\* (0 when str[i] is a separator).  A lower-case run; a capital followed by
\* a lower-case run; a run of capitals, less its last one when a lower-case
\* letter follows; a run of digits.
WordLenAt(str, i) ==
    IF IsLower(str[i]) THEN RunLower(str, i)
    ELSE IF IsUpper(str[i])
         THEN IF RunLower(str, i + 1) > 0 THEN 1 + RunLower(str, i + 1)
              ELSE LET n == RunUpper(str, i)
                   IN  IF RunLower(str, i + n) > 0 THEN n - 1 ELSE n
    ELSE IF IsDigit(str[i]) THEN RunDigit(str, i)
    ELSE 0

RECURSIVE WordsFrom(_, _)
WordsFrom(str, i) ==
    IF i > Len(str) THEN << >>
    ELSE LET n == WordLenAt(str, i)
         IN  IF n = 0 THEN WordsFrom(str, i + 1)
             ELSE << SubSeq(str, i, i + n - 1) >> \o WordsFrom(str, i + n)

words(str) ==
    WordsFrom(str, 1)

\* lodash camelCase: the first word in lower case, every later word in
\* lower case with its first letter capitalised
camelCase(str) ==
    LET w == words(str)
    IN  Concat([ i \in DOMAIN w |->
                   IF i = 1 THEN toLowerCase(w[i])
                   ELSE upperFirst(toLowerCase(w[i])) ])

\* ------------------------------------------------------------------------
\* References
\* ------------------------------------------------------------------------

S_components ==
    << "c","o","m","p","o","n","e","n","t","s" >>

S_schemas ==
    << "s","c","h","e","m","a","s" >>

\* the text "#/components/schemas/"
SchemaRefPrefix ==
    << "#", "/" >> \o S_components \o << "/" >> \o S_schemas \o << "/" >>

\* { $ref: `#/components/schemas/${name}` }
SchemaRef(name) ==
    [ ref |-> SchemaRefPrefix \o name ]

Has(obj, f) ==
    f \in DOMAIN obj

isRef(obj) ==
    Has(obj, "ref")

unescapePointer(p) ==
    ReplaceAll(ReplaceAll(p, << "~", "0" >>, << "~" >>), << "~", "1" >>, << "/" >>)

splitRef(ref) ==
    LET parts == SplitOn(SubSeq(ref, 3, Len(ref)), "/", << >>)
    IN  [ i \in DOMAIN parts |-> unescapePointer(parts[i]) ]

\* the entry of an ordered object under a key, as a sequence of 0 or 1 values
EntriesNamed(entries, name) ==
    SelectSeq(entries, LAMBDA e : e.name = name)

HasEntry(entries, name) ==
    EntriesNamed(entries, name) # << >>

Lookup(entries, name) ==
    EntriesNamed(entries, name)[1].schema

\* obj[name] = schema on an ordered object: an existing key keeps its place
SetEntry(entries, name, schema) ==
    IF HasEntry(entries, name)
    THEN [ i \in DOMAIN entries |->
             IF entries[i].name = name THEN [ name |-> name, schema |-> schema ]
             ELSE entries[i] ]
    ELSE Append(entries, [ name |-> name, schema |-> schema ])

\* what resolveRef throws for
Unresolvable ==
    [ unresolvable |-> TRUE ]

S_items ==
    << "i", "t", "e", "m", "s" >>

S_additionalProperties ==
    << "a", "d", "d", "i", "t", "i", "o", "n", "a", "l", "P", "r", "o", "p", "e", "r", "t", "i", "e", "s" >>

\* a JSON value that is no object is a literal: false, true, null, a number
\* or a string, kept by its text
Literal(text) ==
    [ literal |-> text ]

\* !value
Falsy(value) ==
    Has(value, "literal") /\ value.literal \in { "false", "null", "0", "" }

\* _get(doc, parts), as a sequence of 0 or 1 values: the documents of the
\* model hold schemas under components.schemas only, and a path goes at
\* most one key into a schema
get(doc, parts) ==
    IF /\ Len(parts) \in { 3, 4 }
       /\ parts[1] = S_components
       /\ parts[2] = S_schemas
       /\ HasEntry(doc.components.schemas, parts[3])
    THEN LET schema == Lookup(doc.components.schemas, parts[3])
         IN  IF Len(parts) = 3 THEN << schema >>
             ELSE IF parts[4] = S_items /\ Has(schema, "items")
                  THEN << schema.items >>
             ELSE IF parts[4] = S_additionalProperties
                         /\ Has(schema, "additionalProperties")
                  THEN << schema.additionalProperties >>
             ELSE << >>
    ELSE << >>

\* lines 97-104
resolveRef(doc, ref) ==
    LET found == get(doc, splitRef(ref))
    IN  IF found = << >> THEN Unresolvable
        ELSE IF Falsy(found[1]) THEN Unresolvable
        ELSE found[1]

\* resolveIfRef that takes every node for a reference
resolveIfRefStrict(doc, possibleRef) ==
    IF isRef(possibleRef) THEN resolveRef(doc, possibleRef.ref) ELSE Unresolvable

\* lines 109-115
resolveIfRef(doc, possibleRef) ==
    IF isRef(possibleRef) THEN resolveRef(doc, possibleRef.ref) ELSE possibleRef

\* ------------------------------------------------------------------------
\* Schema hoisting
\* ------------------------------------------------------------------------

TypeOf(schema) ==
    IF Has(schema, "type") THEN schema.type ELSE ""

isCompositeSchema(schema) ==
    Has(schema, "allOf") \/ Has(schema, "anyOf") \/ Has(schema, "oneOf")

isStringEnum(schema) ==
    TypeOf(schema) = "string" /\ Has(schema, "enum")

hasSubSchemasToVisit(schema) ==
    /\ ~isRef(schema)
    /\ \/ TypeOf(schema) \in { "object", "array" }
       \/ isCompositeSchema(schema)
       \/ Has(schema, "not")
       \/ isStringEnum(schema)

\* the filter of hoistInlineObjectSubSchemas: the sub-schemas that become
\* named schemas
isHoisted(schema) ==
    \/ TypeOf(schema) = "object" /\ Has(schema, "properties")
    \/ isCompositeSchema(schema)
    \/ isStringEnum(schema)

\* `${inlineSchemaIndex === 0 ? '' : inlineSchemaIndex}`
IndexText(n) ==
    IF n = 0 THEN << >>
    ELSE << CHOOSE d \in Digits : d = ToString(n) >>

\* filterInlineCompositeSchemas: the sub-schemas to visit among the branches
\* of one composite keyword, each with its name parts and its place
filterInlineCompositeSchemas(schemas, nameParts, namePartPrefix, prop) ==
    LET visit == SelectIdx(LAMBDA i : hasSubSchemasToVisit(schemas[i]), Len(schemas), 1)
    IN  [ k \in DOMAIN visit |->
            LET s == schemas[visit[k]]
                inlineSchemaIndex == k - 1
            IN  [ nameParts |->
                    IF Has(s, "title") /\ s.title # << >>
                    THEN << upperFirst(camelCase(s.title)) >>
                    ELSE Append(nameParts, namePartPrefix \o IndexText(inlineSchemaIndex)),
                  schema |-> s,
                  prop |-> [ f |-> prop, i |-> visit[k] ] ] ]

\* the inline sub-schemas hoistInlineObjectSubSchemas visits, in its order
InlineSubSchemas(nameParts, schema) ==
       (IF Has(schema, "not") /\ hasSubSchemasToVisit(schema.not)
        THEN << [ nameParts |-> Append(nameParts, << "N","o","t" >>),
                  schema |-> schema.not, prop |-> [ f |-> "not", i |-> 0 ] ] >>
        ELSE << >>)
    \o (IF Has(schema, "anyOf")
        THEN filterInlineCompositeSchemas(schema.anyOf, nameParts,
                                          << "A","n","y","O","f" >>, "anyOf")
        ELSE << >>)
    \o (IF Has(schema, "allOf")
        THEN filterInlineCompositeSchemas(schema.allOf, nameParts,
                                          << "A","l","l","O","f" >>, "allOf")
        ELSE << >>)
    \o (IF Has(schema, "oneOf")
        THEN filterInlineCompositeSchemas(schema.oneOf, nameParts,
                                          << "O","n","e","O","f" >>, "oneOf")
        ELSE << >>)
    \o (IF Has(schema, "items") /\ hasSubSchemasToVisit(schema.items)
        THEN << [ nameParts |-> Append(nameParts, << "I","n","n","e","r" >>),
                  schema |-> schema.items, prop |-> [ f |-> "items", i |-> 0 ] ] >>
        ELSE << >>)
    \o (IF Has(schema, "properties")
        THEN LET visit == SelectIdx(
                     LAMBDA i : hasSubSchemasToVisit(schema.properties[i].schema),
                     Len(schema.properties), 1)
             IN  [ k \in DOMAIN visit |->
                     [ nameParts |-> Append(nameParts, schema.properties[visit[k]].name),
                       schema |-> schema.properties[visit[k]].schema,
                       prop |-> [ f |-> "properties", i |-> visit[k] ] ] ]
        ELSE << >>)
    \o (IF /\ Has(schema, "additionalProperties")
           /\ ~Has(schema.additionalProperties, "bool")
           /\ hasSubSchemasToVisit(schema.additionalProperties)
        THEN << [ nameParts |-> Append(nameParts, << "V","a","l","u","e" >>),
                  schema |-> schema.additionalProperties,
                  prop |-> [ f |-> "additionalProperties", i |-> 0 ] ] >>
        ELSE << >>)

\* the name a hoisted sub-schema is registered under
HoistedName(sub) ==
    Concat(MapSeq(upperFirst,
                  sub.nameParts \o (IF isStringEnum(sub.schema)
                                    THEN << << "E","n","u","m" >> >>
                                    ELSE << >>)))

\* {}: an object with no keys
EmptyObject ==
    << >>

RECURSIVE SetDeep(_, _, _)
\* lodash baseSet below the first key: a key that is no OpenAPI keyword is
\* kept in the object's extra entries; a missing or non-object value on the
\* way is replaced by {}
SetDeep(obj, keys, value) ==
    IF keys = << >> THEN value
    ELSE LET k == Head(keys)
             extra == IF Has(obj, "extra") THEN obj.extra ELSE << >>
             cur == IF HasEntry(extra, k) THEN Lookup(extra, k) ELSE EmptyObject
             set == SetEntry(extra, k, SetDeep(cur, Tail(keys), value))
         IN  [ f \in DOMAIN obj \cup { "extra" } |->
                 IF f = "extra" THEN set ELSE obj[f] ]

\* lodash set(schema, `properties.${name}`, value): the path text is split
\* at every '.', so a property name that holds a '.' names a nested path
\* and not the property (the names of the model hold no '[' or ']')
SetProperty(properties, name, value) ==
    LET keys == SplitOn(name, ".", << >>)
        cur == IF HasEntry(properties, keys[1])
               THEN Lookup(properties, keys[1]) ELSE EmptyObject
    IN  SetEntry(properties, keys[1], SetDeep(cur, Tail(keys), value))

\* lodash set(schema, prop, value) for the places hoisting writes to
SetProp(schema, prop, value) ==
    CASE prop.f = "not" -> [ schema EXCEPT !.not = value ]
      [] prop.f = "items" -> [ schema EXCEPT !.items = value ]
      [] prop.f = "additionalProperties" ->
             [ schema EXCEPT !.additionalProperties = value ]
      [] prop.f = "anyOf" -> [ schema EXCEPT !.anyOf[prop.i] = value ]
      [] prop.f = "allOf" -> [ schema EXCEPT !.allOf[prop.i] = value ]
      [] prop.f = "oneOf" -> [ schema EXCEPT !.oneOf[prop.i] = value ]
      [] prop.f = "properties" ->
             [ schema EXCEPT !.properties =
                 SetProperty(@, schema.properties[prop.i].name, value) ]

RECURSIVE SetProps(_, _, _)
SetProps(schema, subs, values) ==
    IF subs = << >> THEN schema
    ELSE SetProps(SetProp(schema, Head(subs).prop, Head(values)), Tail(subs), Tail(values))

\* { ...schema, "x-tsapi-hoisted": true }
MarkHoisted(schema) ==
    [ f \in DOMAIN schema \cup { "x-tsapi-hoisted" } |->
        IF f = "x-tsapi-hoisted" THEN TRUE ELSE schema[f] ]

\* the refs of one call: a clone of every hoisted sub-schema, as its own
\* visit left it, under its name
OwnRefs(subs, visits) ==
    LET hoistIdx == SelectIdx(LAMBDA k : isHoisted(subs[k].schema), Len(subs), 1)
    IN  [ j \in DOMAIN hoistIdx |->
            [ name |-> HoistedName(subs[hoistIdx[j]]),
              schema |-> MarkHoisted(visits[hoistIdx[j]].schema) ] ]

\* what one call leaves at the place of each visited sub-schema: a $ref to
\* its name when it was hoisted, the sub-schema as its visit left it if not
NewValues(subs, visits) ==
    [ k \in DOMAIN subs |->
        IF isHoisted(subs[k].schema)
        THEN SchemaRef(HoistedName(subs[k]))
        ELSE visits[k].schema ]

HoistResult(schema, subs, visits) ==
    [ schema |-> SetProps(schema, subs, NewValues(subs, visits)),
      refs |-> OwnRefs(subs, visits)
               \o Concat([ k \in DOMAIN subs |-> visits[k].refs ]) ]

RECURSIVE hoistInlineObjectSubSchemas(_, _)
RECURSIVE HoistVisit(_, _)
\* depth first: every sub-schema to visit is hoisted before the schema is
HoistVisit(schema, subs) ==
    HoistResult(schema, subs,
                [ k \in DOMAIN subs |->
                    hoistInlineObjectSubSchemas(subs[k].nameParts, subs[k].schema) ])

\* The code mutates schema in place and returns the refs; here the result is
\* [schema, refs]: the schema as the call leaves it, and the SubSchemaRefs
\* (name and schema; $ref is SchemaRef(name)) in the order returned.
hoistInlineObjectSubSchemas(nameParts, schema) ==
    HoistVisit(schema, InlineSubSchemas(nameParts, schema))

\* ------------------------------------------------------------------------
\* buildData: the document passes
\* ------------------------------------------------------------------------

\* response?.content?.['application/json']?.schema, as 0 or 1 schemas
JsonSchemaOf(body) ==
    IF Has(body, "content")
    THEN LET json == SelectSeq(body.content,
                               LAMBDA c : c.mediaType = "application/json"
                                          /\ Has(c, "schema"))
         IN  IF json = << >> THEN << >> ELSE << json[1].schema >>
    ELSE << >>

\* body.content['application/json'].schema = schema
SetJsonSchema(body, schema) ==
    [ body EXCEPT !.content =
        [ i \in DOMAIN @ |->
            IF @[i].mediaType = "application/json"
            THEN [ @[i] EXCEPT !.schema = schema ] ELSE @[i] ] ]

\* the test both hoisting loops of buildData apply to a JSON body
isInlineBody(body) ==
    /\ JsonSchemaOf(body) # << >>
    /\ ~isRef(JsonSchemaOf(body)[1])
    /\ TypeOf(JsonSchemaOf(body)[1]) \in { "object", "array" }

\* the name in camel case, its first letter as it is
OperationTypeNameCamel(pathOp) ==
    camelCase(IF Has(pathOp.operation, "operationId")
              THEN pathOp.operation.operationId
              ELSE pathOp.path \o << "-" >> \o pathOp.method)

\* _upperFirst(_camelCase(operation.operationId ?? `${path}-${method}`))
OperationTypeName(pathOp) ==
    upperFirst(camelCase(IF Has(pathOp.operation, "operationId")
                         THEN pathOp.operation.operationId
                         ELSE pathOp.path \o << "-" >> \o pathOp.method))

S_Response ==
    << "R","e","s","p","o","n","s","e" >>

S_RequestContent ==
    << "R","e","q","u","e","s","t","C","o","n","t","e","n","t" >>

RECURSIVE HoistResponses(_, _, _, _)
\* the responses loop of one operation, from response r on; acc is
\* [schemas, names, responses]
HoistResponses(pathOp, r, n, acc) ==
    IF r > n THEN acc
    ELSE LET res == acc.responses[r]
             schemaName == OperationTypeName(pathOp) \o res.code \o S_Response
         IN  HoistResponses(pathOp, r + 1, n,
                 IF isInlineBody(res.response)
                 THEN [ schemas |-> SetEntry(acc.schemas, schemaName,
                                             JsonSchemaOf(res.response)[1]),
                        names |-> Append(acc.names, schemaName),
                        responses |->
                            [ acc.responses EXCEPT ![r].response =
                                SetJsonSchema(@, SchemaRef(schemaName)) ] ]
                 ELSE acc)

\* the request body of one operation; acc is [schemas, names, operation]
HoistRequestBody(pathOp, acc) ==
    IF Has(acc.operation, "requestBody") /\ isInlineBody(acc.operation.requestBody)
    THEN LET schemaName == OperationTypeName(pathOp) \o S_RequestContent
         IN  [ schemas |-> SetEntry(acc.schemas, schemaName,
                                    JsonSchemaOf(acc.operation.requestBody)[1]),
               names |-> Append(acc.names, schemaName),
               operation |-> [ acc.operation EXCEPT !.requestBody =
                                 SetJsonSchema(@, SchemaRef(schemaName)) ] ]
    ELSE acc

RECURSIVE HoistOperationBodies(_, _, _)
\* "Hoist" inline request and response schemas: operation o on; the result
\* is [spec, names], names being the schema names registered, in order
HoistOperationBodies(doc, o, names) ==
    IF o > Len(doc.paths) THEN [ spec |-> doc, names |-> names ]
    ELSE LET pathOp == doc.paths[o]
             afterRes == HoistResponses(pathOp, 1, Len(pathOp.operation.responses),
                             [ schemas |-> doc.components.schemas, names |-> names,
                               responses |-> pathOp.operation.responses ])
             afterReq == HoistRequestBody(pathOp,
                             [ schemas |-> afterRes.schemas, names |-> afterRes.names,
                               operation |-> [ pathOp.operation EXCEPT
                                                 !.responses = afterRes.responses ] ])
         IN  HoistOperationBodies(
                 [ doc EXCEPT !.paths[o].operation = afterReq.operation,
                              !.components.schemas = afterReq.schemas ],
                 o + 1, afterReq.names)

RECURSIVE RegisterRefs(_, _)
\* refs.forEach(ref => spec.components.schemas[ref.name] = ref.schema)
RegisterRefs(schemas, refs) ==
    IF refs = << >> THEN schemas
    ELSE RegisterRefs(SetEntry(schemas, Head(refs).name, Head(refs).schema), Tail(refs))

RECURSIVE HoistSchemas(_, _, _, _)
\* The loop over Object.entries(spec.components.schemas): the entries are
\* listed before the loop starts, so a schema that an earlier iteration
\* replaced under its name is still visited, and mutated, but is no longer
\* the schema the document holds. names are the names this loop has
\* registered so far; the result is [schemas, names].
HoistSchemas(entries, k, schemas, names) ==
    IF k > Len(entries) THEN [ schemas |-> schemas, names |-> names ]
    ELSE IF isRef(entries[k].schema)
         THEN HoistSchemas(entries, k + 1, schemas, names)
         ELSE LET res == hoistInlineObjectSubSchemas(<< entries[k].name >>,
                                                     entries[k].schema)
                  replaced == \E i \in DOMAIN names : names[i] = entries[k].name
                  mutated == IF replaced THEN schemas
                             ELSE SetEntry(schemas, entries[k].name, res.schema)
              IN  HoistSchemas(entries, k + 1, RegisterRefs(mutated, res.refs),
                               names \o [ i \in DOMAIN res.refs |-> res.refs[i].name ])

\* the schemas below a schema, one level down, in every place a schema
\* object can hold one
ChildSchemas(schema) ==
       (IF Has(schema, "not") THEN << schema.not >> ELSE << >>)
    \o (IF Has(schema, "items") THEN << schema.items >> ELSE << >>)
    \o (IF Has(schema, "additionalProperties")
        THEN << schema.additionalProperties >> ELSE << >>)
    \o (IF Has(schema, "anyOf") THEN schema.anyOf ELSE << >>)
    \o (IF Has(schema, "allOf") THEN schema.allOf ELSE << >>)
    \o (IF Has(schema, "oneOf") THEN schema.oneOf ELSE << >>)
    \o (IF Has(schema, "properties")
        THEN [ i \in DOMAIN schema.properties |-> schema.properties[i].schema ]
        ELSE << >>)
    \o (IF Has(schema, "extra")
        THEN [ i \in DOMAIN schema.extra |-> schema.extra[i].schema ]
        ELSE << >>)

\* the test of the customizer at line 786
isInlinedRef(doc, v) ==
    /\ isRef(v)
    /\ LET resolved == resolveRef(doc, v.ref)
       IN  /\ ~Has(resolved, "unresolvable")
           /\ Has(resolved, "type")
           /\ resolved.type # "object"
           /\ ~isStringEnum(resolved)

RECURSIVE InlineClone(_, _)
\* _cloneDeepWith(spec, customizer) below one schema: a value the
\* customizer returns is taken as it is and not cloned any further
InlineClone(doc, v) ==
    IF isInlinedRef(doc, v) THEN resolveRef(doc, v.ref)
    ELSE [ f \in DOMAIN v |->
             CASE f \in { "not", "items", "additionalProperties" } ->
                      InlineClone(doc, v[f])
               [] f \in { "anyOf", "allOf", "oneOf" } ->
                      [ i \in DOMAIN v[f] |-> InlineClone(doc, v[f][i]) ]
               [] f \in { "properties", "extra" } ->
                      [ i \in DOMAIN v[f] |->
                          [ name |-> v[f][i].name,
                            schema |-> InlineClone(doc, v[f][i].schema) ] ]
               [] OTHER -> v[f] ]

RECURSIVE RefsVisited(_, _)
\* the { $ref } objects the customizer is called with below one schema
RefsVisited(doc, v) ==
    IF isRef(v) THEN { v.ref }
    ELSE UNION { RefsVisited(doc, ChildSchemas(v)[i]) : i \in DOMAIN ChildSchemas(v) }

\* the schemas an operation holds: of its response and request contents
\* and of its parameters
BodySchemas(body) ==
    IF Has(body, "content")
    THEN LET with == SelectSeq(body.content, LAMBDA c : Has(c, "schema"))
         IN  [ i \in DOMAIN with |-> with[i].schema ]
    ELSE << >>

OperationSchemas(operation) ==
       Concat([ r \in DOMAIN operation.responses |->
                  BodySchemas(operation.responses[r].response) ])
    \o (IF Has(operation, "requestBody")
        THEN BodySchemas(operation.requestBody) ELSE << >>)
    \o (IF Has(operation, "parameters")
        THEN LET with == SelectSeq(operation.parameters, LAMBDA q : Has(q, "schema"))
             IN  [ i \in DOMAIN with |-> with[i].schema ]
        ELSE << >>)

\* every schema the document holds at the top of a schema tree
RootSchemas(doc) ==
       [ i \in DOMAIN doc.components.schemas |-> doc.components.schemas[i].schema ]
    \o Concat([ o \in DOMAIN doc.paths |-> OperationSchemas(doc.paths[o].operation) ])

InlineBody(doc, body) ==
    IF Has(body, "content")
    THEN [ body EXCEPT !.content =
             [ i \in DOMAIN @ |->
                 IF Has(@[i], "schema")
                 THEN [ @[i] EXCEPT !.schema = InlineClone(doc, @) ]
                 ELSE @[i] ] ]
    ELSE body

InlineOperation(doc, operation) ==
    [ f \in DOMAIN operation |->
        CASE f = "responses" ->
                 [ r \in DOMAIN operation.responses |->
                     [ code |-> operation.responses[r].code,
                       response |-> InlineBody(doc, operation.responses[r].response) ] ]
          [] f = "requestBody" -> InlineBody(doc, operation.requestBody)
          [] f = "parameters" ->
                 [ i \in DOMAIN operation.parameters |->
                     IF Has(operation.parameters[i], "schema")
                     THEN [ operation.parameters[i] EXCEPT
                              !.schema = InlineClone(doc, @) ]
                     ELSE operation.parameters[i] ]
          [] OTHER -> operation[f] ]

\* spec = _cloneDeepWith(spec, ...) of lines 783-791, when nothing throws
InlineDocument(doc) ==
    [ doc EXCEPT
        !.paths = [ o \in DOMAIN @ |->
                      [ @[o] EXCEPT !.operation = InlineOperation(doc, @) ] ],
        !.components.schemas =
            [ i \in DOMAIN @ |->
                [ name |-> @[i].name, schema |-> InlineClone(doc, @[i].schema) ] ] ]

\* the $refs the clone adds to inlinedRefs
InlinedRefsOf(doc) ==
    { ref \in UNION { RefsVisited(doc, RootSchemas(doc)[i]) :
                        i \in DOMAIN RootSchemas(doc) } :
        isInlinedRef(doc, [ ref |-> ref ]) }

\* the $refs resolveRef throws for inside the clone
UnresolvableRefs(doc) ==
    { ref \in UNION { RefsVisited(doc, RootSchemas(doc)[i]) :
                        i \in DOMAIN RootSchemas(doc) } :
        Has(resolveRef(doc, ref), "unresolvable") }

InlineThrows(doc) ==
    UnresolvableRefs(doc) # { }

\* delete spec.components.schemas[parts[2]] for every inlined ref
DeleteInlinedSchemas(doc, refs) ==
    [ doc EXCEPT !.components.schemas =
        SelectSeq(@, LAMBDA e :
            ~\E ref \in refs :
                /\ Len(splitRef(ref)) = 3
                /\ splitRef(ref)[1] = S_components
                /\ splitRef(ref)[2] = S_schemas
                /\ splitRef(ref)[3] = e.name) ]

\* the customizer of lines 722-727 on an object that holds the key "tags":
\* of a non-empty list of strings only the first stays
FirstTagOnly(operation) ==
    IF Has(operation, "tags") /\ Len(operation.tags) > 0
    THEN [ operation EXCEPT !.tags = << @[1] >> ]
    ELSE operation

\* lines 722-727 below components.schemas: the customizer is called with
\* every key of the document, so the example value of a schema is an object
\* it visits like an operation
CloneSchemas(schemas) ==
    [ i \in DOMAIN schemas |->
        IF Has(schemas[i].schema, "example")
        THEN [ schemas[i] EXCEPT !.schema.example = FirstTagOnly(@) ]
        ELSE schemas[i] ]

\* lines 722-737: the clone of the caller's document, with
\* components.schemas set
CloneSpec(doc) ==
    LET components == IF Has(doc, "components") THEN doc.components ELSE EmptyObject
        schemas == IF Has(components, "schemas") THEN components.schemas ELSE << >>
    IN  [ f \in DOMAIN doc \cup { "components" } |->
            CASE f = "components" ->
                     [ g \in DOMAIN components \cup { "schemas" } |->
                         IF g = "schemas" THEN CloneSchemas(schemas) ELSE components[g] ]
              [] f = "paths" ->
                     [ o \in DOMAIN doc.paths |->
                         [ doc.paths[o] EXCEPT !.operation = FirstTagOnly(@) ] ]
              [] OTHER -> doc[f] ]

\* ------------------------------------------------------------------------
\* The documents compiled
\* ------------------------------------------------------------------------

\* the nesting depth of the schemas under components.schemas
MaxDepth ==
    2

N_A ==
    << "A" >>

N_AB ==
    << "A", "B" >>

P_b ==
    << "b" >>

P_dot ==
    << "a", ".", "b" >>

StringSchema ==
    [ type |-> "string" ]

EnumSchema ==
    [ type |-> "string", enum |-> << "x", "y" >> ]

ObjectSchema(name, schema) ==
    [ type |-> "object", properties |-> << [ name |-> name, schema |-> schema ] >> ]

ArraySchema(schema) ==
    [ type |-> "array", items |-> schema ]

DictionarySchema(schema) ==
    [ type |-> "object", additionalProperties |-> schema ]

LeafSchemas ==
    { StringSchema, EnumSchema, SchemaRef(N_A), SchemaRef(N_AB) }

RECURSIVE SchemaSet(_)
\* the schemas nested at most d deep
SchemaSet(d) ==
    IF d = 0 THEN LeafSchemas
    ELSE LET sub == SchemaSet(d - 1)
         IN  LeafSchemas
             \cup { ObjectSchema(P_b, s) : s \in sub }
             \cup { ObjectSchema(P_dot, s) : s \in sub }
             \cup { ArraySchema(s) : s \in sub }
             \cup { DictionarySchema(s) : s \in sub }
             \cup { [ oneOf |-> << s, StringSchema >> ] : s \in sub }
             \cup { [ type |-> "string", not |-> s ] : s \in sub }

\* what components.schemas holds under AB beside the schema A
SecondSchemas ==
    { StringSchema,
      ObjectSchema(<< "c" >>, StringSchema),
      ArraySchema(SchemaRef(N_AB)),
      ArraySchema(ObjectSchema(P_b, SchemaRef(N_A))) }

JsonBody(schema) ==
    [ content |-> << [ mediaType |-> "application/json", schema |-> schema ] >> ]

GetA(operation) ==
    [ path |-> << "/", "a" >>, method |-> << "g", "e", "t" >>, operation |-> operation ]

Code200 ==
    << "2", "0", "0" >>

S_getWidget ==
    << "g", "e", "t", "W", "i", "d", "g", "e", "t" >>

P_name ==
    << "n", "a", "m", "e" >>

\* GET /widget, operationId getWidget, with the inline 200 response
\* { name: string }
GetWidget ==
    [ path |-> << "/", "w", "i", "d", "g", "e", "t" >>,
      method |-> << "g", "e", "t" >>,
      operation |-> [ operationId |-> S_getWidget,
                      responses |-> << [ code |-> Code200,
                                         response |-> JsonBody(
                                             ObjectSchema(P_name, StringSchema)) ] >> ] ]

\* the operations of the documents: JSON bodies that are references, inline
\* objects and arrays, an inline composite; a parameter with an inline enum
Operations ==
    { GetWidget,
      GetA([ operationId |-> << "a" >>,
             tags |-> << << "t" >>, << "u" >> >>,
             responses |-> << [ code |-> Code200,
                                response |-> JsonBody(SchemaRef(N_A)) ] >> ]),
      GetA([ responses |-> << [ code |-> Code200,
                                response |-> JsonBody(ObjectSchema(P_b, EnumSchema)) ] >>,
             requestBody |-> JsonBody(ArraySchema(ObjectSchema(P_b, StringSchema))) ]),
      GetA([ operationId |-> << "a" >>,
             responses |-> << [ code |-> Code200,
                                response |-> JsonBody([ oneOf |-> << SchemaRef(N_A),
                                                                     StringSchema >> ]) ] >> ]),
      GetA([ operationId |-> << "a" >>,
             parameters |-> << [ name |-> << "q" >>, in |-> "query",
                                 schema |-> EnumSchema ] >>,
             responses |-> << [ code |-> Code200,
                                response |-> [ description |-> "ok" ] ] >> ]) }

Titled(schema) ==
    [ f \in DOMAIN schema \cup { "title" } |->
        IF f = "title" THEN << "b", "i", "g", " ", "c", "a", "t" >> ELSE schema[f] ]

\* the branches of one composite keyword: inline objects and enums with and
\* without a title, and an inline array, which is visited and not hoisted
BranchLists ==
    LET plain == ObjectSchema(P_b, StringSchema)
    IN  { << plain, plain >>,
          << Titled(plain), plain, plain >>,
          << plain, Titled(plain), plain >>,
          << plain, plain, Titled(plain) >>,
          << Titled(EnumSchema), EnumSchema >>,
          << ArraySchema(StringSchema), plain >>,
          << SchemaRef(N_AB), plain, plain >> }

\* a schema A that is a composite of the branches, beside a schema AB
TitledDocuments ==
    { [ paths |-> << >>,
        components |->
          [ schemas |-> << [ name |-> N_A, schema |-> [ f \in { keyword } |-> branches ] ],
                           [ name |-> N_AB, schema |-> StringSchema ] >> ] ] :
        keyword \in { "anyOf", "allOf", "oneOf" }, branches \in BranchLists }

\* the documents buildData is given: a schema A, with or without a schema
\* AB beside it, and at most one operation
Documents ==
    { [ paths |-> ops,
        components |-> [ schemas |-> << [ name |-> N_A, schema |-> a ] >> \o second ] ] :
        a \in SchemaSet(MaxDepth),
        second \in { << >> } \cup { << [ name |-> N_AB, schema |-> s ] >> :
                                      s \in SecondSchemas },
        ops \in { << >> } \cup { << op >> : op \in Operations } }
    \cup { [ paths |-> << op >> ] : op \in Operations }
    \cup TitledDocuments

\* ------------------------------------------------------------------------
\* buildData, pass by pass
\* ------------------------------------------------------------------------

NoError ==
    [ message |-> "", name |-> << >> ]

\* before the base parser has run there is no data
NoData ==
    /\ models = << >>
    /\ data = [ models |-> << >>, operations |-> << >> ]
    /\ index = 0
    /\ inner = 0
    /\ stack = << >>
    /\ visited = { }
    /\ enriched = << >>

\* buildData called on its own: no run, and no file is looked at
NoArgs ==
    [ templateDirs |-> << >>, cwd |-> "outputPath", cwdFiles |-> { } ]

NoRenders ==
    /\ renders = << >>
    /\ splitFiles = << >>
    /\ generatedFilePaths = << >>
    /\ log = << >>

\* resolveIfRef is not being checked on its own
NoCalls ==
    /\ refArg = EmptyObject
    /\ refResult = EmptyObject
    /\ refCalls = << >>

NoFiles ==
    /\ NoCalls
    /\ args = NoArgs
    /\ fs = [ path \in { } |-> << >> ]
    /\ NoRenders

DocInit ==
    /\ pc = "clone"
    /\ inSpec \in Documents
    /\ spec = EmptyObject
    /\ hoisted = << >>
    /\ inlinedRefs = { }
    /\ error = NoError
    /\ NoData
    /\ NoFiles

\* lines 722-737
CloneDocument ==
    /\ pc = "clone"
    /\ spec' = CloneSpec(inSpec)
    /\ pc' = "hoistBodies"
    /\ UNCHANGED << inSpec, hoisted, inlinedRefs, error, dataVars >>
    /\ UNCHANGED << fileVars, callVars >>

\* lines 739-768
HoistBodies ==
    /\ pc = "hoistBodies"
    /\ LET res == HoistOperationBodies(spec, 1, << >>)
       IN  /\ spec' = res.spec
           /\ hoisted' = hoisted \o res.names
    /\ pc' = "hoistSchemas"
    /\ UNCHANGED << inSpec, inlinedRefs, error, dataVars >>
    /\ UNCHANGED << fileVars, callVars >>

\* lines 770-779
HoistInline ==
    /\ pc = "hoistSchemas"
    /\ LET res == HoistSchemas(spec.components.schemas, 1,
                               spec.components.schemas, << >>)
       IN  /\ spec' = [ spec EXCEPT !.components.schemas = res.schemas ]
           /\ hoisted' = hoisted \o res.names
    /\ pc' = "inlineRefs"
    /\ UNCHANGED << inSpec, inlinedRefs, error, dataVars >>
    /\ UNCHANGED << fileVars, callVars >>

\* lines 781-791
InlineRefs ==
    /\ pc = "inlineRefs"
    /\ IF InlineThrows(spec)
       THEN /\ \E ref \in UnresolvableRefs(spec) :
                   error' = [ message |-> "Unable to resolve ref", name |-> ref ]
            /\ pc' = "failed"
            /\ UNCHANGED << spec, inlinedRefs >>
       ELSE /\ spec' = InlineDocument(spec)
            /\ inlinedRefs' = InlinedRefsOf(spec)
            /\ pc' = "deleteInlined"
            /\ UNCHANGED error
    /\ UNCHANGED << inSpec, hoisted, dataVars >>
    /\ UNCHANGED << fileVars, callVars >>

\* lines 793-799
DeleteInlined ==
    /\ pc = "deleteInlined"
    /\ spec' = DeleteInlinedSchemas(spec, inlinedRefs)
    /\ pc' = "parse"
    /\ UNCHANGED << inSpec, hoisted, inlinedRefs, error, dataVars >>
    /\ UNCHANGED << fileVars, callVars >>

DocNext ==
    \/ CloneDocument
    \/ HoistBodies
    \/ HoistInline
    \/ InlineRefs
    \/ DeleteInlined

DocSpec ==
    DocInit /\ [][DocNext]_vars

\* ------------------------------------------------------------------------
\* The base parser: parseOpenapi.parse(spec) of line 802 and
\* getOperationResponses of line 837.  The parser is a dependency; what is
\* modelled is the shape of its result that generate.ts reads: a Model per
\* schema with name, export, type, link and properties, where the branches
\* of a composition are properties without a name, a $ref has the export
\* "reference" and names its schema in type, and link is set only for
\* inline items and values.
\* ------------------------------------------------------------------------

T_string ==
    << "s", "t", "r", "i", "n", "g" >>

T_number ==
    << "n", "u", "m", "b", "e", "r" >>

T_boolean ==
    << "b", "o", "o", "l", "e", "a", "n" >>

T_any ==
    << "a", "n", "y" >>

T_void ==
    << "v", "o", "i", "d" >>

T_binary ==
    << "b", "i", "n", "a", "r", "y" >>

FormatOf(schema) ==
    IF Has(schema, "format") THEN schema.format ELSE ""

\* the type the parser gives a schema that is neither a reference nor a
\* collection: integer and number are both "number"
PrimitiveType(schema) ==
    CASE TypeOf(schema) \in { "integer", "number" } -> T_number
      [] TypeOf(schema) = "string" /\ FormatOf(schema) = "binary" -> T_binary
      [] TypeOf(schema) = "string" -> T_string
      [] TypeOf(schema) = "boolean" -> T_boolean
      [] OTHER -> T_any

\* the schema name a $ref to components.schemas ends with
RefTypeName(ref) ==
    SubSeq(ref, Len(SchemaRefPrefix) + 1, Len(ref))

\* a parseOpenapi.Model; link is the identity of the linked Model, 0 for
\* none, and properties are identities too
Model(name, export, type, link, properties, definition) ==
    [ name |-> name, export |-> export, type |-> type, link |-> link,
      properties |-> properties, format |-> FormatOf(definition),
      uniqueItems |-> Has(definition, "uniqueItems") ]

WithLink(arena, name, export, definition) ==
    Append(arena, Model(name, export, arena[Len(arena)].type, Len(arena),
                        << >>, definition))

WithProperties(res, name, export, definition) ==
    Append(res.arena, Model(name, export, T_any, 0, res.ids, definition))

Branches(schemas) ==
    [ i \in DOMAIN schemas |-> [ name |-> << >>, schema |-> schemas[i] ] ]

isDictionarySchema(definition) ==
    /\ TypeOf(definition) = "object"
    /\ Has(definition, "additionalProperties")
    /\ definition.additionalProperties # [ bool |-> FALSE ]

RECURSIVE getModel(_, _, _)
RECURSIVE getModels(_, _, _, _)
getModelsFrom(arena, entries, k, ids) ==
    getModels(arena, entries, k + 1, Append(ids, Len(arena)))

\* the Models of the entries from the k-th on, each added to the arena
getModels(arena, entries, k, ids) ==
    IF k > Len(entries) THEN [ arena |-> arena, ids |-> ids ]
    ELSE getModelsFrom(getModel(arena, entries[k].schema, entries[k].name),
                       entries, k, ids)

\* the arena with the Model of a schema, and the Models below it, added;
\* the Model of the schema is the last one
getModel(arena, definition, name) ==
    CASE isRef(definition) ->
             Append(arena, Model(name, "reference", RefTypeName(definition.ref),
                                 0, << >>, definition))
      [] ~isRef(definition) /\ Has(definition, "enum")
           /\ TypeOf(definition) # "boolean" ->
             Append(arena, Model(name, "enum", T_string, 0, << >>, definition))
      [] TypeOf(definition) = "array" /\ Has(definition, "items")
           /\ ~Has(definition, "enum") ->
             IF isRef(definition.items)
             THEN Append(arena, Model(name, "array",
                                      RefTypeName(definition.items.ref),
                                      0, << >>, definition))
             ELSE WithLink(getModel(arena, definition.items, << >>),
                           name, "array", definition)
      [] isDictionarySchema(definition) /\ ~Has(definition, "enum") ->
             IF isRef(definition.additionalProperties)
             THEN Append(arena, Model(name, "dictionary",
                                      RefTypeName(definition.additionalProperties.ref),
                                      0, << >>, definition))
             ELSE WithLink(getModel(arena,
                                    IF Has(definition.additionalProperties, "bool")
                                    THEN EmptyObject
                                    ELSE definition.additionalProperties,
                                    << >>),
                           name, "dictionary", definition)
      [] OTHER ->
             IF Has(definition, "oneOf")
             THEN WithProperties(getModels(arena, Branches(definition.oneOf), 1, << >>),
                                 name, "one-of", definition)
             ELSE IF Has(definition, "anyOf")
             THEN WithProperties(getModels(arena, Branches(definition.anyOf), 1, << >>),
                                 name, "any-of", definition)
             ELSE IF Has(definition, "allOf")
             THEN WithProperties(getModels(arena, Branches(definition.allOf), 1, << >>),
                                 name, "all-of", definition)
             ELSE IF TypeOf(definition) = "object" /\ Has(definition, "properties")
             THEN WithProperties(getModels(arena, definition.properties, 1, << >>),
                                 name, "interface", definition)
             ELSE IF Has(definition, "type") /\ TypeOf(definition) # "object"
             THEN Append(arena, Model(name, "generic", PrimitiveType(definition),
                                      0, << >>, definition))
             ELSE Append(arena, Model(name, "interface", T_any, 0, << >>, definition))

\* fields written onto an object: those it had keep their place
Assign(object, fields) ==
    [ f \in DOMAIN object \cup DOMAIN fields |->
        IF f \in DOMAIN fields THEN fields[f] ELSE object[f] ]

SetModel(arena, id, fields) ==
    [ arena EXCEPT ![id] = Assign(@, fields) ]

DigitChars ==
    << "0", "1", "2", "3", "4", "5", "6", "7", "8", "9" >>

RECURSIVE ParseIntFrom(_, _, _)
\* parseInt of the digits of str from the i-th on
ParseIntFrom(str, i, acc) ==
    IF i > Len(str) \/ ~IsDigit(str[i]) THEN acc
    ELSE ParseIntFrom(str, i + 1, 10 * acc + IndexIn(str[i], DigitChars) - 1)

S_default ==
    << "d", "e", "f", "a", "u", "l", "t" >>

\* the number the parser reads a key of `responses` as: "default" is 200,
\* which is what the comparison of line 847 looks for; 0 for no number
ResponseCode(code) ==
    IF code = S_default THEN 200
    ELSE IF Len(code) > 0 /\ IsDigit(code[1]) THEN ParseIntFrom(code, 1, 0)
    ELSE 0

\* the content the parser reads a response's type from: the JSON one, or
\* else the first with a schema
ResponseContent(response) ==
    IF ~Has(response, "content") THEN << >>
    ELSE LET json == SelectSeq(response.content,
                               LAMBDA c : c.mediaType = "application/json"
                                          /\ Has(c, "schema"))
             any == SelectSeq(response.content, LAMBDA c : Has(c, "schema"))
         IN  IF Len(json) > 0 THEN << json[1] >>
             ELSE IF Len(any) > 0 THEN << any[1] >>
             ELSE << >>

ResponseFields(response, code) ==
    [ in |-> "response", code |-> code,
      description |-> IF Has(response, "description")
                      THEN response.description ELSE "" ]

\* getOperationResponse(spec, response, code): the arena with the Model of
\* the response added last
getOperationResponse(arena, response, code) ==
    IF ResponseContent(response) = << >>
    THEN Append(arena, Assign(Model(<< >>, "generic", T_any, 0, << >>, EmptyObject),
                              ResponseFields(response, code)))
    ELSE LET parsed == getModel(arena, ResponseContent(response)[1].schema, << >>)
         IN  Append(parsed, Assign(parsed[Len(parsed)], ResponseFields(response, code)))

RECURSIVE InsertByCode(_, _, _)
\* id put into the list sorted by code, after the ids of the same code
InsertByCode(arena, ids, id) ==
    IF ids = << >> THEN << id >>
    ELSE IF arena[id].code < arena[ids[1]].code THEN << id >> \o ids
    ELSE << ids[1] >> \o InsertByCode(arena, Tail(ids), id)

RECURSIVE getOperationResponses(_, _, _, _)
RespondedFrom(arena, responses, k, ids) ==
    getOperationResponses(arena, responses, k + 1, InsertByCode(arena, ids, Len(arena)))

\* getOperationResponses(spec, responses): a Model per key of `responses`
\* that reads as a number, sorted by code
getOperationResponses(arena, responses, k, ids) ==
    IF k > Len(responses) THEN [ arena |-> arena, ids |-> ids ]
    ELSE IF ResponseCode(responses[k].code) = 0
    THEN getOperationResponses(arena, responses, k + 1, ids)
    ELSE RespondedFrom(getOperationResponse(arena, responses[k].response,
                                            ResponseCode(responses[k].code)),
                       responses, k, ids)

RECURSIVE DeepModel(_, _)
\* the value of a Model with the Models it holds in place of identities
DeepModel(arena, id) ==
    [ f \in DOMAIN arena[id] |->
        CASE f = "link" ->
                 IF arena[id].link = 0 THEN << >>
                 ELSE << DeepModel(arena, arena[id].link) >>
          [] f = "properties" ->
                 [ i \in DOMAIN arena[id].properties |->
                     DeepModel(arena, arena[id].properties[i]) ]
          [] OTHER -> arena[id][f] ]

\* the results of an operation: its 2xx responses other than 204, one per
\* type; a void result when it has none
VoidResult ==
    Assign(Model(<< >>, "generic", T_void, 0, << >>, EmptyObject),
           [ in |-> "response", code |-> 200, description |-> "" ])

SuccessIds(arena, ids) ==
    SelectSeq(ids, LAMBDA id : /\ arena[id].code # 204
                               /\ arena[id].code >= 200
                               /\ arena[id].code < 300)

FirstOfType(arena, ids) ==
    LET keep == SelectIdx(LAMBDA k : \A h \in 1 .. (k - 1) :
                                         arena[ids[h]].type # arena[ids[k]].type,
                          Len(ids), 1)
    IN  [ n \in DOMAIN keep |-> ids[keep[n]] ]

getOperationResults(res) ==
    IF SuccessIds(res.arena, res.ids) = << >>
    THEN [ arena |-> Append(res.arena, VoidResult),
           ids |-> << Len(res.arena) + 1 >> ]
    ELSE [ arena |-> res.arena,
           ids |-> FirstOfType(res.arena, SuccessIds(res.arena, res.ids)) ]

toUpperCase(str) ==
    [ i \in DOMAIN str |-> ToUpperChar(str[i]) ]

W_with ==
    << "w", "i", "t", "h" >>

W_if ==
    << "i", "f" >>

W_class ==
    << "c", "l", "a", "s", "s" >>

\* words the parser escapes in a parameter name with a leading underscore
\* (lines 165-166); of them, those the documents use
ParserReservedWords ==
    { W_with, W_if, W_class }

\* the name the parser gives a parameter; `escaping` is whether it escapes
\* reserved words
ParameterName(name, escaping) ==
    IF escaping /\ camelCase(name) \in ParserReservedWords
    THEN << "_" >> \o camelCase(name)
    ELSE camelCase(name)

ParameterEntries(parameters, escaping) ==
    [ i \in DOMAIN parameters |->
        [ name |-> ParameterName(parameters[i].name, escaping),
          schema |-> IF Has(parameters[i], "schema")
                     THEN parameters[i].schema ELSE EmptyObject ] ]

\* the parameter Models of an operation: the Model of the schema, with
\* `in` and with `prop`, the name as declared
WithLocations(res, parameters) ==
    [ arena |-> [ id \in DOMAIN res.arena |->
                    IF \E i \in DOMAIN res.ids : res.ids[i] = id
                    THEN LET i == CHOOSE i \in DOMAIN res.ids : res.ids[i] = id
                         IN  Assign(res.arena[id], [ in |-> parameters[i].in,
                                                     prop |-> parameters[i].name ])
                    ELSE res.arena[id] ],
      ids |-> res.ids ]

S_requestBody ==
    << "r", "e", "q", "u", "e", "s", "t", "B", "o", "d", "y" >>

\* the request body is one more parameter, with in = "body"
WithRequestBody(res, operation) ==
    IF Has(operation, "requestBody") /\ Has(operation.requestBody, "content")
         /\ Len(operation.requestBody.content) > 0
         /\ Has(operation.requestBody.content[1], "schema")
    THEN LET parsed == getModel(res.arena, operation.requestBody.content[1].schema,
                                S_requestBody)
         IN  [ arena |-> SetModel(parsed, Len(parsed),
                                  [ in |-> "body", prop |-> S_requestBody,
                                    mediaType |->
                                        operation.requestBody.content[1].mediaType ]),
               ids |-> Append(res.ids, Len(parsed)) ]
    ELSE res

OperationParameters(arena, operation, escaping) ==
    WithRequestBody(
        IF Has(operation, "parameters")
        THEN WithLocations(getModels(arena,
                                     ParameterEntries(operation.parameters, escaping),
                                     1, << >>),
                           operation.parameters)
        ELSE [ arena |-> arena, ids |-> << >> ],
        operation)

\* the name the parser gives the operation
OperationName(pathOp) ==
    IF Has(pathOp.operation, "operationId")
    THEN camelCase(pathOp.operation.operationId)
    ELSE camelCase(pathOp.method \o pathOp.path)

S_Default ==
    << "D", "e", "f", "a", "u", "l", "t" >>

\* the service the parser files the operation under: its tag in
\* PascalCase, Default when it has none
ServiceName(operation) ==
    IF Has(operation, "tags") /\ Len(operation.tags) > 0
    THEN upperFirst(camelCase(operation.tags[1]))
    ELSE S_Default

ParsedOperation(pathOp, parameters, results) ==
    [ arena |-> results.arena,
      op |-> [ path |-> pathOp.path, method |-> toUpperCase(pathOp.method),
               name |-> OperationName(pathOp),
               service |-> ServiceName(pathOp.operation),
               parameters |-> parameters.ids,
               results |-> results.ids,
               responses |-> << >> ] ]

WithResults(pathOp, parameters) ==
    ParsedOperation(pathOp, parameters,
                    getOperationResults(
                        getOperationResponses(parameters.arena,
                                              pathOp.operation.responses, 1, << >>)))

ParseOperation(arena, pathOp, escaping) ==
    WithResults(pathOp, OperationParameters(arena, pathOp.operation, escaping))

RECURSIVE ParseOperations(_, _, _, _, _)
ParsedFrom(parsed, paths, k, ops, escaping) ==
    ParseOperations(parsed.arena, paths, k + 1, Append(ops, parsed.op), escaping)

ParseOperations(arena, paths, k, ops, escaping) ==
    IF k > Len(paths) THEN [ arena |-> arena, operations |-> ops ]
    ELSE ParsedFrom(ParseOperation(arena, paths[k], escaping), paths, k, ops, escaping)

\* parseOpenapi.parse(spec): a Model per entry of components.schemas, and
\* the operations of the paths
ParsedOperations(parsedModels, doc, escaping) ==
    [ arena |-> ParseOperations(parsedModels.arena, doc.paths, 1, << >>,
                                escaping).arena,
      models |-> parsedModels.ids,
      operations |-> ParseOperations(parsedModels.arena, doc.paths, 1, << >>,
                                     escaping).operations ]

parse(doc, escaping) ==
    ParsedOperations(getModels(<< >>, doc.components.schemas, 1, << >>),
                     doc, escaping)

\* ------------------------------------------------------------------------
\* buildData after the document passes
\* ------------------------------------------------------------------------

\* the depth of the call stack; a call beyond it is the RangeError
\* "Maximum call stack size exceeded"
MaxStack ==
    8

StackOverflow ==
    "Maximum call stack size exceeded"

NotEnriched ==
    [ composite |-> << >>, links |-> << >>, metadata |-> << >>, call |-> << >> ]

\* one more assignment of the fields of a pass to a Model
Bump(counts, id) ==
    [ x \in DOMAIN counts \cup { id } |->
        IF x = id THEN (IF id \in DOMAIN counts THEN counts[id] ELSE 0) + 1
        ELSE counts[x] ]

Count(counts, id) ==
    IF id \in DOMAIN counts THEN counts[id] ELSE 0

\* line 802
Parse ==
    /\ pc = "parse"
    /\ \E escaping \in BOOLEAN :
           LET parsed == parse(spec, escaping)
           IN  /\ models' = parsed.arena
               /\ data' = [ models |-> parsed.models,
                            operations |-> parsed.operations ]
    /\ pc' = "composite"
    /\ index' = 1
    /\ inner' = 0
    /\ stack' = << >>
    /\ visited' = { }
    /\ enriched' = NotEnriched
    /\ UNCHANGED << inSpec, spec, hoisted, inlinedRefs, error >>
    /\ UNCHANGED << fileVars, callVars >>

\* ------------------------------------------------------------------------
\* The documents compiled to the end: the cyclic schemas and the reserved
\* parameter names of the edge-cases document, compositions, collection
\* parameters and response sets
\* ------------------------------------------------------------------------

N_CycleArray ==
    << "C", "y", "c", "l", "e", "A", "r", "r", "a", "y" >>

N_CycleArrayNode ==
    N_CycleArray \o << "N", "o", "d", "e" >>

N_CycleDictionary ==
    << "C", "y", "c", "l", "e", "D", "i", "c", "t", "i", "o", "n", "a", "r", "y" >>

N_CycleDictionaryNode ==
    N_CycleDictionary \o << "N", "o", "d", "e" >>

P_nodes ==
    << "n", "o", "d", "e", "s" >>

Entry(name, schema) ==
    [ name |-> name, schema |-> schema ]

Get(path, operation) ==
    [ path |-> path, method |-> << "g", "e", "t" >>, operation |-> operation ]

OkResponse ==
    [ description |-> "ok" ]

\* lines 121-139 and 371-392 of the edge-cases document
EdgeCases ==
    [ paths |->
        << Get(<< "/", "k" >>,
               [ operationId |-> << "k" >>,
                 parameters |-> << [ in |-> "query", name |-> W_with,
                                     schema |-> StringSchema ],
                                   [ in |-> "query", name |-> W_if,
                                     schema |-> StringSchema ],
                                   [ in |-> "query", name |-> W_class,
                                     schema |-> StringSchema ] >>,
                 responses |-> << [ code |-> Code200, response |-> OkResponse ] >> ]) >>,
      components |->
        [ schemas |->
            << Entry(N_CycleArray, ArraySchema(SchemaRef(N_CycleArrayNode))),
               Entry(N_CycleArrayNode, ObjectSchema(P_nodes, SchemaRef(N_CycleArray))),
               Entry(N_CycleDictionary,
                     DictionarySchema(SchemaRef(N_CycleDictionaryNode))),
               Entry(N_CycleDictionaryNode,
                     ObjectSchema(P_nodes, SchemaRef(N_CycleDictionary))) >> ] ]

Schemas(entries) ==
    [ paths |-> << >>, components |-> [ schemas |-> entries ] ]

N_B ==
    << "B" >>

N_C ==
    << "C" >>

N_M ==
    << "M" >>

N_N ==
    << "N" >>

ObjectA ==
    Entry(N_A, ObjectSchema(P_b, StringSchema))

ObjectB ==
    Entry(N_B, ObjectSchema(P_b, [ type |-> "integer", format |-> "int32" ]))

ObjectC ==
    Entry(N_C, ObjectSchema(P_b, ArraySchema(ArraySchema(SchemaRef(N_A)))))

AllOf(schemas) ==
    [ allOf |-> schemas ]

\* compositions: allOf of objects, nested and with one member twice; allOf
\* with a member that is a string, and one that is a string enum; a oneOf
\* with an array of itself; a dictionary of itself
Compositions ==
    { Schemas(<< ObjectA, ObjectB, ObjectC,
                 Entry(N_M, AllOf(<< SchemaRef(N_N), SchemaRef(N_C) >>)),
                 Entry(N_N, AllOf(<< SchemaRef(N_A), SchemaRef(N_B) >>)) >>),
      Schemas(<< ObjectA, Entry(N_M, AllOf(<< SchemaRef(N_A), SchemaRef(N_A) >>)) >>),
      Schemas(<< ObjectA, Entry(N_M, AllOf(<< SchemaRef(N_A), StringSchema >>)) >>),
      Schemas(<< ObjectA, Entry(N_M, AllOf(<< SchemaRef(N_A), EnumSchema >>)) >>),
      Schemas(<< ObjectA,
                 Entry(N_M, AllOf(<< SchemaRef(N_N), SchemaRef(N_A) >>)),
                 Entry(N_N, AllOf(<< SchemaRef(N_A),
                                     [ type |-> "integer" ] >>)) >>),
      Schemas(<< ObjectA,
                 Entry(N_M, [ oneOf |-> << SchemaRef(N_A),
                                           ArraySchema(SchemaRef(N_M)),
                                           StringSchema >> ]) >>),
      Schemas(<< Entry(N_M, DictionarySchema(SchemaRef(N_M))) >>) }

P_x ==
    << "x" >>

P_y ==
    << "y" >>

Styles ==
    { "form", "spaceDelimited", "pipeDelimited", "simple", "deepObject" }

\* a parameter with an array schema, with or without style and explode
CollectionParameters(name, in) ==
    { Assign(Assign([ name |-> name, in |-> in, schema |-> ArraySchema(StringSchema) ],
                    style), explode) :
        style \in { EmptyObject } \cup { [ style |-> s ] : s \in Styles },
        explode \in { EmptyObject } \cup { [ explode |-> e ] : e \in BOOLEAN } }

WithParameters(parameters) ==
    [ paths |-> << Get(<< "/", "a" >>,
                       [ operationId |-> << "a" >>,
                         parameters |-> parameters,
                         responses |-> << [ code |-> Code200,
                                            response |-> OkResponse ] >> ]) >>,
      components |-> [ schemas |-> << >> ] ]

\* one collection parameter; a query and a header parameter of one name
ParameterDocuments ==
    { WithParameters(<< p >>) :
        p \in CollectionParameters(P_x, "query") \cup CollectionParameters(P_x, "header") }
    \cup { WithParameters(<< [ name |-> P_x, in |-> "query", style |-> "spaceDelimited",
                               explode |-> FALSE,
                               schema |-> ArraySchema(StringSchema) ],
                             [ name |-> n, in |-> "header",
                               schema |-> ArraySchema(StringSchema) ] >>) :
             n \in { P_x, P_y } }

Code404 ==
    << "4", "0", "4" >>

ResponseBodies ==
    { OkResponse,
      [ description |-> "other" ],
      Assign(OkResponse, JsonBody(SchemaRef(N_A))),
      Assign(OkResponse, JsonBody(ArraySchema(SchemaRef(N_A)))) }

WithResponses(responses) ==
    [ paths |-> << [ path |-> << "/", "a", "/", "{", "i", "}" >>,
                     method |-> << "p", "u", "t" >>,
                     operation |-> [ responses |-> responses,
                                     requestBody |-> JsonBody(
                                         ObjectSchema(P_b, StringSchema)) ] ] >>,
      components |-> [ schemas |-> << ObjectA >> ] ]

\* the response sets: a 200 response, a 404 response and a default
\* response, each present or not, the keys in the order of a JavaScript
\* object (numbers ascending, then default)
ResponseDocuments ==
    { WithResponses(ok \o missing \o default) :
        ok \in { << >> } \cup { << [ code |-> Code200, response |-> r ] >> :
                                  r \in ResponseBodies },
        missing \in { << >>, << [ code |-> Code404, response |-> OkResponse ] >> },
        default \in { << >> } \cup { << [ code |-> S_default, response |-> r ] >> :
                                       r \in ResponseBodies } }

T_pet ==
    << "p", "e", "t" >>

T_admin ==
    << "a", "d", "m", "i", "n" >>

\* GET path answering with a reference to the schema; the operation has
\* the fields given
Answering(path, schema, fields) ==
    Get(path, Assign(fields, [ responses |->
                                 << [ code |-> Code200,
                                      response |-> Assign(OkResponse,
                                                          JsonBody(SchemaRef(schema))) ] >> ]))

\* operations of three services, one of them without a tag and one without
\* an operationId, in an order that is not the order of their names
TaggedOperations ==
    << Answering(<< "/", "z" >>, N_B, [ operationId |-> << "z" >>, tags |-> << T_pet >> ]),
       Answering(<< "/", "y" >>, N_A, [ operationId |-> << "y" >>,
                                        tags |-> << T_admin, T_pet >> ]),
       Answering(<< "/", "x" >>, N_A, [ operationId |-> << "x" >> ]),
       Answering(<< "/", "w" >>, N_A, [ operationId |-> << "b" >>, tags |-> << T_pet >> ]),
       Answering(<< "/", "c" >>, N_B, [ tags |-> << T_pet >> ]) >>

Reverse(s) ==
    [ i \in DOMAIN s |-> s[Len(s) + 1 - i] ]

TaggedDocuments ==
    { [ paths |-> paths, components |-> [ schemas |-> << ObjectB, ObjectA >> ] ] :
        paths \in { TaggedOperations, Reverse(TaggedOperations) } }

\* a schema whose example is an object with a key named tags
Exemplified ==
    Entry(N_A, Assign(ObjectSchema(P_b, StringSchema),
                      [ example |-> [ tags |-> << T_admin, T_pet >> ] ]))

ExampleDocuments ==
    { [ paths |-> TaggedOperations,
        components |-> [ schemas |-> << ObjectB, Exemplified >> ] ] }

\* an object with a property of every numeric type and format
Numbers ==
    [ type |-> "object",
      properties |->
        << [ name |-> << "a" >>, schema |-> [ type |-> "integer" ] ],
           [ name |-> << "b" >>, schema |-> [ type |-> "number" ] ],
           [ name |-> << "c" >>, schema |-> [ type |-> "integer", format |-> "int32" ] ],
           [ name |-> << "d" >>, schema |-> [ type |-> "integer", format |-> "int64" ] ],
           [ name |-> << "e" >>, schema |-> [ type |-> "number", format |-> "float" ] ],
           [ name |-> << "f" >>, schema |-> [ type |-> "number", format |-> "double" ] ] >> ]

NumericDocuments ==
    { Schemas(<< Entry(N_A, Numbers) >>) }

BuildDocuments ==
    { EdgeCases } \cup Compositions \cup ParameterDocuments \cup ResponseDocuments
    \cup TaggedDocuments \cup ExampleDocuments \cup NumericDocuments

BuildInit ==
    /\ pc = "clone"
    /\ inSpec \in BuildDocuments
    /\ spec = EmptyObject
    /\ hoisted = << >>
    /\ inlinedRefs = { }
    /\ error = NoError
    /\ NoData
    /\ NoFiles

\* ------------------------------------------------------------------------
\* Names and types of the three languages
\* ------------------------------------------------------------------------

RECURSIVE SeparateAcronyms(_, _)
\* replace(/([A-Z]+)([A-Z][a-z][a-z]+)/g, "$1_$2") from the i-th character
\* on: a run of two or more capitals followed by two or more lower-case
\* letters gets an underscore before its last capital
SeparateAcronyms(str, i) ==
    IF i > Len(str) THEN << >>
    ELSE IF RunUpper(str, i) >= 2 /\ RunLower(str, i + RunUpper(str, i)) >= 2
    THEN SubSeq(str, i, i + RunUpper(str, i) - 2) \o << "_" >>
         \o SubSeq(str, i + RunUpper(str, i) - 1,
                   i + RunUpper(str, i) + RunLower(str, i + RunUpper(str, i)) - 1)
         \o SeparateAcronyms(str, i + RunUpper(str, i)
                                    + RunLower(str, i + RunUpper(str, i)))
    ELSE << str[i] >> \o SeparateAcronyms(str, i + 1)

RECURSIVE SeparateCapitals(_, _)
\* replace(/([a-z\d])([A-Z])/g, "$1_$2") from the i-th character on
SeparateCapitals(str, i) ==
    IF i > Len(str) THEN << >>
    ELSE IF i < Len(str) /\ (IsLower(str[i]) \/ IsDigit(str[i])) /\ IsUpper(str[i + 1])
    THEN << str[i], "_", str[i + 1] >> \o SeparateCapitals(str, i + 2)
    ELSE << str[i] >> \o SeparateCapitals(str, i + 1)

\* replace(/[-\s]/g, "_")
SeparateWords(str) ==
    [ i \in DOMAIN str |-> IF str[i] \in { "-", " ", "\t", "\n" } THEN "_" ELSE str[i] ]

snakeCase(str) ==
    toLowerCase(
        SeparateWords(
            SeparateCapitals(
                SeparateAcronyms(
                    ReplaceAll(ReplaceAll(str, << "." >>, << "/" >>),
                               << "$" >>, << "_", "_" >>),
                    1),
                1)))

PYTHON_KEYWORDS ==
    { << "a", "l", "l", "_", "p", "a", "r", "a", "m", "s" >>,
      << "r", "e", "s", "o", "u", "r", "c", "e", "_", "p", "a", "t", "h" >>,
      << "p", "a", "t", "h", "_", "p", "a", "r", "a", "m", "s" >>,
      << "q", "u", "e", "r", "y", "_", "p", "a", "r", "a", "m", "s" >>,
      << "h", "e", "a", "d", "e", "r", "_", "p", "a", "r", "a", "m", "s" >>,
      << "f", "o", "r", "m", "_", "p", "a", "r", "a", "m", "s" >>,
      << "l", "o", "c", "a", "l", "_", "v", "a", "r", "_", "f", "i", "l", "e", "s" >>,
      << "b", "o", "d", "y", "_", "p", "a", "r", "a", "m", "s" >>,
      << "a", "u", "t", "h", "_", "s", "e", "t", "t", "i", "n", "g", "s" >>,
      << "p", "r", "o", "p", "e", "r", "t", "y" >>,
      << "s", "c", "h", "e", "m", "a" >>,
      << "b", "a", "s", "e", "6", "4" >>,
      << "j", "s", "o", "n" >>,
      << "d", "a", "t", "e" >>,
      << "f", "l", "o", "a", "t" >>,
      << "a", "n", "d" >>,
      << "d", "e", "l" >>,
      << "f", "r", "o", "m" >>,
      << "n", "o", "t" >>,
      << "w", "h", "i", "l", "e" >>,
      << "a", "s" >>,
      << "e", "l", "i", "f" >>,
      << "g", "l", "o", "b", "a", "l" >>,
      << "o", "r" >>,
      << "w", "i", "t", "h" >>,
      << "a", "s", "s", "e", "r", "t" >>,
      << "e", "l", "s", "e" >>,
      << "i", "f" >>,
      << "p", "a", "s", "s" >>,
      << "y", "i", "e", "l", "d" >>,
      << "b", "r", "e", "a", "k" >>,
      << "e", "x", "c", "e", "p", "t" >>,
      << "i", "m", "p", "o", "r", "t" >>,
      << "p", "r", "i", "n", "t" >>,
      << "c", "l", "a", "s", "s" >>,
      << "e", "x", "e", "c" >>,
      << "i", "n" >>,
      << "r", "a", "i", "s", "e" >>,
      << "c", "o", "n", "t", "i", "n", "u", "e" >>,
      << "f", "i", "n", "a", "l", "l", "y" >>,
      << "i", "s" >>,
      << "r", "e", "t", "u", "r", "n" >>,
      << "d", "e", "f" >>,
      << "f", "o", "r" >>,
      << "l", "a", "m", "b", "d", "a" >>,
      << "t", "r", "y" >>,
      << "s", "e", "l", "f" >>,
      << "n", "o", "n", "l", "o", "c", "a", "l" >>,
      << "N", "o", "n", "e" >>,
      << "T", "r", "u", "e" >>,
      << "F", "a", "l", "s", "e" >>,
      << "a", "s", "y", "n", "c" >>,
      << "a", "w", "a", "i", "t" >> }

Unescaped(name) ==
    IF StartsWith(name, << "_" >>) THEN Tail(name) ELSE name

\* the name in snake case, reserved or not
toPythonNameUnchecked(namedEntity, name) ==
    snakeCase(name)

toPythonName(namedEntity, name) ==
    IF Unescaped(name) \in PYTHON_KEYWORDS
    THEN CASE namedEntity = "model" ->
                  << "m", "o", "d", "e", "l" >> \o (IF StartsWith(name, << "_" >>) THEN << >> ELSE << "_" >>)
                  \o snakeCase(name)
           [] namedEntity = "operation" ->
                  << "c", "a", "l", "l" >> \o (IF StartsWith(name, << "_" >>) THEN << >> ELSE << "_" >>)
                  \o snakeCase(name)
           [] namedEntity = "property" -> << "v", "a", "r" >> \o snakeCase(name)
           [] OTHER -> snakeCase(name)
    ELSE snakeCase(name)

JAVA_KEYWORDS ==
    { << "o", "b", "j", "e", "c", "t" >>,
      << "l", "i", "s", "t" >>,
      << "f", "i", "l", "e" >>,
      << "l", "o", "c", "a", "l", "V", "a", "r", "P", "a", "t", "h" >>,
      << "l", "o", "c", "a", "l", "V", "a", "r", "Q", "u", "e", "r", "y", "P", "a", "r", "a", "m", "s" >>,
      << "l", "o", "c", "a", "l", "V", "a", "r", "C", "o", "l", "l", "e", "c", "t", "i", "o", "n", "Q", "u", "e", "r", "y", "P", "a", "r", "a", "m", "s" >>,
      << "l", "o", "c", "a", "l", "V", "a", "r", "H", "e", "a", "d", "e", "r", "P", "a", "r", "a", "m", "s" >>,
      << "l", "o", "c", "a", "l", "V", "a", "r", "C", "o", "o", "k", "i", "e", "P", "a", "r", "a", "m", "s" >>,
      << "l", "o", "c", "a", "l", "V", "a", "r", "F", "o", "r", "m", "P", "a", "r", "a", "m", "s" >>,
      << "l", "o", "c", "a", "l", "V", "a", "r", "P", "o", "s", "t", "B", "o", "d", "y" >>,
      << "l", "o", "c", "a", "l", "V", "a", "r", "A", "c", "c", "e", "p", "t", "s" >>,
      << "l", "o", "c", "a", "l", "V", "a", "r", "A", "c", "c", "e", "p", "t" >>,
      << "l", "o", "c", "a", "l", "V", "a", "r", "C", "o", "n", "t", "e", "n", "t", "T", "y", "p", "e", "s" >>,
      << "l", "o", "c", "a", "l", "V", "a", "r", "C", "o", "n", "t", "e", "n", "t", "T", "y", "p", "e" >>,
      << "l", "o", "c", "a", "l", "V", "a", "r", "A", "u", "t", "h", "N", "a", "m", "e", "s" >>,
      << "l", "o", "c", "a", "l", "R", "e", "t", "u", "r", "n", "T", "y", "p", "e" >>,
      << "A", "p", "i", "C", "l", "i", "e", "n", "t" >>,
      << "A", "p", "i", "E", "x", "c", "e", "p", "t", "i", "o", "n" >>,
      << "A", "p", "i", "R", "e", "s", "p", "o", "n", "s", "e" >>,
      << "C", "o", "n", "f", "i", "g", "u", "r", "a", "t", "i", "o", "n" >>,
      << "S", "t", "r", "i", "n", "g", "U", "t", "i", "l" >>,
      << "_" >>,
      << "a", "b", "s", "t", "r", "a", "c", "t" >>,
      << "c", "o", "n", "t", "i", "n", "u", "e" >>,
      << "f", "o", "r" >>,
      << "n", "e", "w" >>,
      << "s", "w", "i", "t", "c", "h" >>,
      << "a", "s", "s", "e", "r", "t" >>,
      << "d", "e", "f", "a", "u", "l", "t" >>,
      << "i", "f" >>,
      << "p", "a", "c", "k", "a", "g", "e" >>,
      << "s", "y", "n", "c", "h", "r", "o", "n", "i", "z", "e", "d" >>,
      << "b", "o", "o", "l", "e", "a", "n" >>,
      << "d", "o" >>,
      << "g", "o", "t", "o" >>,
      << "p", "r", "i", "v", "a", "t", "e" >>,
      << "t", "h", "i", "s" >>,
      << "b", "r", "e", "a", "k" >>,
      << "d", "o", "u", "b", "l", "e" >>,
      << "i", "m", "p", "l", "e", "m", "e", "n", "t", "s" >>,
      << "p", "r", "o", "t", "e", "c", "t", "e", "d" >>,
      << "t", "h", "r", "o", "w" >>,
      << "b", "y", "t", "e" >>,
      << "e", "l", "s", "e" >>,
      << "i", "m", "p", "o", "r", "t" >>,
      << "p", "u", "b", "l", "i", "c" >>,
      << "t", "h", "r", "o", "w", "s" >>,
      << "c", "a", "s", "e" >>,
      << "e", "n", "u", "m" >>,
      << "i", "n", "s", "t", "a", "n", "c", "e", "o", "f" >>,
      << "r", "e", "t", "u", "r", "n" >>,
      << "t", "r", "a", "n", "s", "i", "e", "n", "t" >>,
      << "c", "a", "t", "c", "h" >>,
      << "e", "x", "t", "e", "n", "d", "s" >>,
      << "i", "n", "t" >>,
      << "s", "h", "o", "r", "t" >>,
      << "t", "r", "y" >>,
      << "c", "h", "a", "r" >>,
      << "f", "i", "n", "a", "l" >>,
      << "i", "n", "t", "e", "r", "f", "a", "c", "e" >>,
      << "s", "t", "a", "t", "i", "c" >>,
      << "v", "o", "i", "d" >>,
      << "c", "l", "a", "s", "s" >>,
      << "f", "i", "n", "a", "l", "l", "y" >>,
      << "l", "o", "n", "g" >>,
      << "s", "t", "r", "i", "c", "t", "f", "p" >>,
      << "v", "o", "l", "a", "t", "i", "l", "e" >>,
      << "c", "o", "n", "s", "t" >>,
      << "f", "l", "o", "a", "t" >>,
      << "n", "a", "t", "i", "v", "e" >>,
      << "s", "u", "p", "e", "r" >>,
      << "w", "h", "i", "l", "e" >>,
      << "n", "u", "l", "l" >>,
      << "o", "f", "f", "s", "e", "t", "d", "a", "t", "e", "t", "i", "m", "e" >>,
      << "l", "o", "c", "a", "l", "d", "a", "t", "e" >>,
      << "l", "o", "c", "a", "l", "t", "i", "m", "e" >> }

toJavaName(name) ==
    IF camelCase(Unescaped(name)) \in JAVA_KEYWORDS
    THEN IF camelCase(Unescaped(name)) = W_class
         THEN << "p", "r", "o", "p", "e", "r", "t", "y", "C", "l", "a", "s", "s" >>
         ELSE << "_" >> \o camelCase(Unescaped(name))
    ELSE camelCase(Unescaped(name))

COMPOSED_SCHEMA_TYPES ==
    { "one-of", "any-of", "all-of" }

COLLECTION_TYPES ==
    { "array", "dictionary" }

PRIMITIVE_TYPES ==
    { T_string, << "i", "n", "t", "e", "g", "e", "r" >>, T_number, T_boolean, << "n", "u", "l", "l" >>, T_any, T_binary, T_void }

\* what a projection that recursed beyond the call stack comes to
Overflow ==
    << "RangeError" >>

Wrap(prefix, element, suffix) ==
    IF element = Overflow THEN Overflow ELSE prefix \o element \o suffix

OpenapiType(property) ==
    IF Has(property, "openapiType") THEN property.openapiType ELSE ""

toTypescriptPrimitive(property) ==
    IF property.type = T_string /\ property.format \in { "date", "date-time" }
    THEN << "D", "a", "t", "e" >>
    ELSE IF property.type = T_binary THEN << "B", "l", "o", "b" >>
    ELSE property.type

RECURSIVE toTypeScriptType(_, _, _)
\* toTypeScriptType(property) for the Model `id`, as the depth-th call
toTypeScriptType(arena, id, depth) ==
    IF depth > MaxStack THEN Overflow
    ELSE CASE arena[id].export \in { "generic", "reference" } ->
                  toTypescriptPrimitive(arena[id])
           [] arena[id].export = "array" ->
                  Wrap(<< "A", "r", "r", "a", "y", "<" >>,
                       IF arena[id].link # 0 /\ arena[arena[id].link].export # "enum"
                       THEN toTypeScriptType(arena, arena[id].link, depth + 1)
                       ELSE arena[id].type,
                       << ">" >>)
           [] arena[id].export = "dictionary" ->
                  Wrap(<< "{", " ", "[", "k", "e", "y", ":", " ", "s", "t", "r", "i", "n", "g", "]", ":", " " >>,
                       IF arena[id].link # 0 /\ arena[arena[id].link].export # "enum"
                       THEN toTypeScriptType(arena, arena[id].link, depth + 1)
                       ELSE arena[id].type,
                       << ";", " ", "}" >>)
           [] arena[id].export \in COMPOSED_SCHEMA_TYPES -> arena[id].name
           [] OTHER -> arena[id].type

\* lines 400-403 with the test of openapiType left out
NumberAlwaysDecimal(property) ==
    << "B", "i", "g", "D", "e", "c", "i", "m", "a", "l" >>

\* lines 400-403: the Java type of a number whose format is none of the
\* four of the switch
NumberOfNoFormat(property) ==
    IF OpenapiType(property) = "integer"
    THEN << "I", "n", "t", "e", "g", "e", "r" >>
    ELSE << "B", "i", "g", "D", "e", "c", "i", "m", "a", "l" >>

toJavaPrimitive(property) ==
    CASE property.type = T_string /\ property.format = "date" -> << "L", "o", "c", "a", "l", "D", "a", "t", "e" >>
      [] property.type = T_string /\ property.format = "date-time" -> << "O", "f", "f", "s", "e", "t", "D", "a", "t", "e", "T", "i", "m", "e" >>
      [] property.type = T_string /\ property.format = "uuid" -> << "U", "U", "I", "D" >>
      [] property.type = T_string /\ property.format = "uri" -> << "U", "R", "I" >>
      [] \/ property.type = T_binary
         \/ property.type = T_string /\ property.format \in { "byte", "binary" } -> << "b", "y", "t", "e", "[", "]" >>
      [] property.type = T_number /\ property.format = "int32" -> << "I", "n", "t", "e", "g", "e", "r" >>
      [] property.type = T_number /\ property.format = "int64" -> << "L", "o", "n", "g" >>
      [] property.type = T_number /\ property.format = "float" -> << "F", "l", "o", "a", "t" >>
      [] property.type = T_number /\ property.format = "double" -> << "D", "o", "u", "b", "l", "e" >>
      [] property.type = T_number
           /\ property.format \notin { "int32", "int64", "float", "double" } ->
             NumberOfNoFormat(property)
      [] property.type = T_boolean -> << "B", "o", "o", "l", "e", "a", "n" >>
      [] property.type = T_string
           /\ property.format \notin { "date", "date-time", "uuid", "uri",
                                       "byte", "binary" } -> << "S", "t", "r", "i", "n", "g" >>
      [] property.type = T_any -> << "O", "b", "j", "e", "c", "t" >>
      [] OTHER -> property.type

RECURSIVE toJavaType(_, _, _)
toJavaType(arena, id, depth) ==
    IF depth > MaxStack THEN Overflow
    ELSE CASE arena[id].export \in { "generic", "reference" } ->
                  toJavaPrimitive(arena[id])
           [] arena[id].export = "array" ->
                  Wrap((IF arena[id].uniqueItems THEN << "S", "e", "t" >> ELSE << "L", "i", "s", "t" >>) \o << "<" >>,
                       IF arena[id].link # 0 /\ arena[arena[id].link].export # "enum"
                       THEN toJavaType(arena, arena[id].link, depth + 1)
                       ELSE arena[id].type,
                       << ">" >>)
           [] arena[id].export = "dictionary" ->
                  Wrap(<< "M", "a", "p", "<", "S", "t", "r", "i", "n", "g", ",", " " >>,
                       IF arena[id].link # 0 /\ arena[arena[id].link].export # "enum"
                       THEN toJavaType(arena, arena[id].link, depth + 1)
                       ELSE arena[id].type,
                       << ">" >>)
           [] arena[id].export \in COMPOSED_SCHEMA_TYPES -> arena[id].name
           [] OTHER ->
                  IF arena[id].type \in PRIMITIVE_TYPES
                  THEN toJavaPrimitive(arena[id])
                  ELSE arena[id].type

toPythonPrimitive(property) ==
    CASE property.type = T_string /\ property.format = "date" -> << "d", "a", "t", "e" >>
      [] property.type = T_string /\ property.format = "date-time" -> << "d", "a", "t", "e", "t", "i", "m", "e" >>
      [] property.type = T_any -> << "o", "b", "j", "e", "c", "t" >>
      [] property.type = T_binary -> << "b", "y", "t", "e", "a", "r", "r", "a", "y" >>
      [] property.type = T_number ->
             IF \/ OpenapiType(property) = "integer"
                \/ property.format \in { "int32", "int64" }
             THEN << "i", "n", "t" >> ELSE << "f", "l", "o", "a", "t" >>
      [] property.type = T_boolean -> << "b", "o", "o", "l" >>
      [] property.type = T_string /\ property.format \notin { "date", "date-time" } -> << "s", "t", "r" >>
      [] OTHER -> property.type

RECURSIVE toPythonType(_, _, _)
toPythonType(arena, id, depth) ==
    IF depth > MaxStack THEN Overflow
    ELSE CASE arena[id].export \in { "generic", "reference" } ->
                  toPythonPrimitive(arena[id])
           [] arena[id].export = "array" ->
                  Wrap(<< "L", "i", "s", "t", "[" >>,
                       IF arena[id].link # 0 /\ arena[arena[id].link].export # "enum"
                       THEN toPythonType(arena, arena[id].link, depth + 1)
                       ELSE arena[id].type,
                       << "]" >>)
           [] arena[id].export = "dictionary" ->
                  Wrap(<< "D", "i", "c", "t", "[", "s", "t", "r", ",", " " >>,
                       IF arena[id].link # 0 /\ arena[arena[id].link].export # "enum"
                       THEN toPythonType(arena, arena[id].link, depth + 1)
                       ELSE arena[id].type,
                       << "]" >>)
           [] arena[id].export \in COMPOSED_SCHEMA_TYPES -> arena[id].name
           [] OTHER ->
                  IF arena[id].type \in PRIMITIVE_TYPES
                  THEN toPythonPrimitive(arena[id])
                  ELSE arena[id].type

\* the fields mutateModelWithAdditionalTypes assigns to the Model `id`
AdditionalTypes(arena, id) ==
    [ name |-> trim(arena[id].name),
      typescriptName |-> trim(arena[id].name),
      typescriptType |-> toTypeScriptType(SetModel(arena, id, [ name |-> trim(arena[id].name) ]), id, 1),
      javaName |-> toJavaName(trim(arena[id].name)),
      javaType |-> toJavaType(SetModel(arena, id, [ name |-> trim(arena[id].name) ]), id, 1),
      pythonName |-> toPythonName("property", trim(arena[id].name)),
      pythonType |-> toPythonType(SetModel(arena, id, [ name |-> trim(arena[id].name) ]), id, 1),
      isPrimitive |-> /\ arena[id].type \in PRIMITIVE_TYPES
                      /\ arena[id].export \notin COMPOSED_SCHEMA_TYPES
                      /\ arena[id].export \notin COLLECTION_TYPES ]

\* a projection of the Model recursed beyond the call stack
TypesOverflow(arena, id) ==
    Overflow \in { AdditionalTypes(arena, id).typescriptType,
                   AdditionalTypes(arena, id).javaType,
                   AdditionalTypes(arena, id).pythonType }

mutateModelWithAdditionalTypes(arena, id) ==
    SetModel(arena, id, AdditionalTypes(arena, id))

\* ------------------------------------------------------------------------
\* The recursive passes, a call at a time.  A frame of the stack is a call:
\* the function, the Model and schema it was given, the place it has
\* reached and the calls its running forEach has yet to make.
\* ------------------------------------------------------------------------

Frame(fn, model, schema) ==
    [ fn |-> fn, model |-> model, schema |-> schema, at |-> "enter", todo |-> << >> ]

Top ==
    stack[Len(stack)]

Returned ==
    SubSeq(stack, 1, Len(stack) - 1)

\* the stack with the running call moved on
Moved(frame) ==
    [ stack EXCEPT ![Len(stack)] = frame ]

RunningIn(fn, places) ==
    /\ pc \notin { "failed", "done" }
    /\ stack # << >>
    /\ Top.fn = fn
    /\ Top.at \in places

Running(fn, at) ==
    RunningIn(fn, { at })

\* a call is made: the stack grows, unless it has no room left
Called(calls) ==
    IF Len(calls) > MaxStack
    THEN /\ pc' = "failed"
         /\ error' = [ message |-> StackOverflow, name |-> << >> ]
         /\ stack' = << >>
    ELSE /\ stack' = calls
         /\ UNCHANGED << pc, error >>

\* an Error is thrown out of buildData
Thrown(message, name) ==
    /\ pc' = "failed"
    /\ error' = [ message |-> message, name |-> name ]
    /\ stack' = << >>

\* modelsByName[name]: the last Model of data.models with the name, 0 for
\* undefined
modelsByName(name) ==
    LET named == SelectSeq(data.models, LAMBDA id : models[id].name = name)
    IN  IF named = << >> THEN 0 ELSE named[Len(named)]

\* lines 324-328
composedModelReferences(id) ==
    SelectSeq(models[id].properties,
              LAMBDA p : models[p].name = << >> /\ models[p].export = "reference")

composedPrimitives(id) ==
    SelectSeq(models[id].properties,
              LAMBDA p : models[p].name = << >> /\ models[p].export # "reference")

\* the reference members themselves, the Models they name not looked up
composedModelsUnresolved(id) ==
    composedModelReferences(id)

composedModels(id) ==
    LET named == SelectSeq(composedModelReferences(id),
                           LAMBDA r : modelsByName(models[r].type) # 0)
    IN  [ i \in DOMAIN named |-> modelsByName(models[named[i]].type) ]

InvalidComposition ==
    "allOf may only compose object types"

\* lines 314-317, and line 808 once every model is done
EnsureCompositeModels ==
    /\ pc = "composite"
    /\ stack = << >>
    /\ IF index <= Len(data.models)
       THEN /\ stack' = << Frame("composite", data.models[index], EmptyObject) >>
            /\ index' = index + 1
            /\ UNCHANGED << pc, visited >>
       ELSE /\ pc' = "links"
            /\ index' = 1
            /\ visited' = { }
            /\ UNCHANGED stack
    /\ UNCHANGED << inSpec, spec, hoisted, inlinedRefs, error, models, data, inner,
                    enriched >>
    /\ UNCHANGED << fileVars, callVars >>

\* lines 320-328
CompositeEnter ==
    /\ Running("composite", "enter")
    /\ IF models[Top.model].export \in COMPOSED_SCHEMA_TYPES /\ Top.model \notin visited
       THEN /\ visited' = visited \cup { Top.model }
            /\ stack' = Moved([ Top EXCEPT !.at = "recurse",
                                           !.todo = composedModels(Top.model) ])
       ELSE /\ stack' = Returned
            /\ UNCHANGED visited
    /\ UNCHANGED << pc, inSpec, spec, hoisted, inlinedRefs, error, models, data,
                    index, inner, enriched >>
    /\ UNCHANGED << fileVars, callVars >>

\* line 330
CompositeRecurse ==
    /\ Running("composite", "recurse")
    /\ IF Top.todo = << >>
       THEN /\ stack' = Moved([ Top EXCEPT !.at = "assign" ])
            /\ UNCHANGED << pc, error >>
       ELSE Called(Append(Moved([ Top EXCEPT !.todo = Tail(@) ]),
                          Frame("composite", Head(Top.todo), EmptyObject)))
    /\ UNCHANGED << inSpec, spec, hoisted, inlinedRefs, models, data, index, inner,
                    visited, enriched >>
    /\ UNCHANGED << fileVars, callVars >>

\* lines 333-340
CompositeAssign ==
    /\ Running("composite", "assign")
    /\ IF models[Top.model].export = "all-of" /\ composedPrimitives(Top.model) # << >>
       THEN /\ Thrown(InvalidComposition, models[Top.model].name)
            /\ UNCHANGED << models, enriched >>
       ELSE /\ models' = SetModel(models, Top.model,
                                  [ composedModels |-> composedModels(Top.model),
                                    composedPrimitives |-> composedPrimitives(Top.model) ])
            /\ enriched' = [ enriched EXCEPT !.composite = Bump(@, Top.model) ]
            /\ stack' = Returned
            /\ UNCHANGED << pc, error >>
    /\ UNCHANGED << inSpec, spec, hoisted, inlinedRefs, data, index, inner, visited >>
    /\ UNCHANGED << fileVars, callVars >>

\* a value that is not false, for a schema or a boolean additionalProperties
Truthy(obj, f) ==
    Has(obj, f) /\ obj[f] # [ bool |-> FALSE ]

\* _camelCase(model.export), the key of the branches in the schema
CompositionKey(export) ==
    CASE export = "one-of" -> "oneOf"
      [] export = "any-of" -> "anyOf"
      [] export = "all-of" -> "allOf"

\* lines 551 and 634: the properties not visited whose trimmed name is a
\* property of the schema, each with the schema of that name
PropertyCalls(id, schema) ==
    LET with == SelectSeq(models[id].properties,
                          LAMBDA p : /\ p \notin visited
                                     /\ Has(schema, "properties")
                                     /\ HasEntry(schema.properties, trim(models[p].name)))
    IN  [ i \in DOMAIN with |->
            [ model |-> with[i],
              schema |-> Lookup(schema.properties, trim(models[with[i]].name)) ] ]

\* lines 557-558 and 640-641: every property, with the branch of the schema
\* at its position, when there is one
BranchCalls(id, schema) ==
    IF Has(schema, CompositionKey(models[id].export))
    THEN LET branches == schema[CompositionKey(models[id].export)]
             with == SelectSeq([ i \in DOMAIN models[id].properties |-> i ],
                               LAMBDA i : i <= Len(branches))
         IN  [ n \in DOMAIN with |->
                 [ model |-> models[id].properties[with[n]],
                   schema |-> branches[with[n]] ] ]
    ELSE << >>

\* the next call of a forEach over `todo`: resolveIfRef of the schema, then
\* the call of fn with it
NextCall(fn) ==
    IF isRef(Head(Top.todo).schema)
         /\ Has(resolveRef(spec, Head(Top.todo).schema.ref), "unresolvable")
    THEN Thrown("Unable to resolve ref", Head(Top.todo).schema.ref)
    ELSE Called(Append(Moved([ Top EXCEPT !.todo = Tail(@) ]),
                       Frame(fn, Head(Top.todo).model,
                             resolveIfRef(spec, Head(Top.todo).schema))))

\* spec.paths[op.path][op.method.toLowerCase()]: a sequence with the
\* operation, empty for undefined
SpecOperation(op) ==
    LET found == SelectSeq(spec.paths,
                           LAMBDA e : e.path = op.path /\ e.method = toLowerCase(op.method))
    IN  IF found = << >> THEN << >> ELSE << found[Len(found)].operation >>

\* specParametersByName[prop]: the last declared parameter of the name
specParameter(op, prop) ==
    IF SpecOperation(op) = << >> \/ ~Has(SpecOperation(op)[1], "parameters")
    THEN << >>
    ELSE LET named == SelectSeq(SpecOperation(op)[1].parameters,
                                LAMBDA q : q.name = prop)
         IN  IF named = << >> THEN << >> ELSE << named[Len(named)] >>

\* resolveIfRef(spec, specParameter?.schema)
specParameterSchema(op, prop) ==
    IF specParameter(op, prop) # << >> /\ Has(specParameter(op, prop)[1], "schema")
    THEN << resolveIfRef(spec, specParameter(op, prop)[1].schema) >>
    ELSE << >>

\* lines 569-583: the next model of data.models
EnsureModelLinks ==
    /\ pc = "links"
    /\ stack = << >>
    /\ IF index > Len(data.models)
       THEN /\ pc' = "linkParameters"
            /\ index' = 1
            /\ inner' = 1
            /\ UNCHANGED << models, stack, error >>
       ELSE LET id == data.models[index]
                name == models[id].name
            IN  IF ~HasEntry(spec.components.schemas, name)
                THEN /\ index' = index + 1
                     /\ UNCHANGED << pc, models, stack, error, inner >>
                ELSE IF Has(resolveIfRef(spec, Lookup(spec.components.schemas, name)),
                            "unresolvable")
                THEN /\ Thrown("Unable to resolve ref",
                               Lookup(spec.components.schemas, name).ref)
                     /\ UNCHANGED << models, index, inner >>
                ELSE LET schema == resolveIfRef(spec, Lookup(spec.components.schemas, name))
                     IN  /\ models' = IF TypeOf(schema) = "object"
                                           /\ Has(schema, "properties")
                                      THEN SetModel(models, id, [ type |-> name ])
                                      ELSE models
                         /\ stack' = << Frame("links", id, schema) >>
                         /\ index' = index + 1
                         /\ UNCHANGED << pc, error, inner >>
    /\ UNCHANGED << inSpec, spec, hoisted, inlinedRefs, data, visited, enriched >>
    /\ UNCHANGED << fileVars, callVars >>

\* lines 586-604: the next parameter of the operations
EnsureParameterLinks ==
    /\ pc = "linkParameters"
    /\ stack = << >>
    /\ IF index > Len(data.operations)
       THEN /\ pc' = "operation"
            /\ index' = 1
            /\ inner' = 1
            /\ UNCHANGED stack
       ELSE IF inner > Len(data.operations[index].parameters)
       THEN /\ index' = index + 1
            /\ inner' = 1
            /\ UNCHANGED << pc, stack >>
       ELSE LET op == data.operations[index]
                id == op.parameters[inner]
            IN  /\ stack' = IF specParameterSchema(op, models[id].prop) # << >>
                            THEN << Frame("links", id,
                                          specParameterSchema(op, models[id].prop)[1]) >>
                            ELSE << >>
                /\ inner' = inner + 1
                /\ UNCHANGED << pc, index >>
    /\ UNCHANGED << inSpec, spec, hoisted, inlinedRefs, error, models, data, visited,
                    enriched >>
    /\ UNCHANGED << fileVars, callVars >>

\* the name of the model a $ref names, splitRef(ref)[2] of the code
RefModel(ref) ==
    IF Len(splitRef(ref)) >= 3 THEN modelsByName(splitRef(ref)[3]) ELSE 0

\* lines 616-619 and 626-629 without the assignment
UncompletedLink(id, ref) ==
    models

\* lines 616-619 and 626-629: the link is set to the named Model when there
\* is one and the link is not set
CompletedLink(id, ref) ==
    IF RefModel(ref) # 0 /\ models[id].link = 0
    THEN SetModel(models, id, [ link |-> RefModel(ref) ])
    ELSE models

\* lines 608-632
LinksEnter ==
    /\ Running("links", "enter")
    /\ IF Top.model \in visited
       THEN /\ stack' = Returned
            /\ UNCHANGED << pc, error, models, visited, enriched >>
       ELSE LET id == Top.model
                f == CASE models[id].export = "dictionary" -> "additionalProperties"
                       [] models[id].export = "array" -> "items"
                       [] OTHER -> ""
                moved == Moved([ Top EXCEPT !.at = "properties" ])
            IN  /\ visited' = visited \cup { id }
                /\ enriched' = [ enriched EXCEPT !.links = Bump(@, id) ]
                /\ IF f # "" /\ Truthy(Top.schema, f)
                   THEN IF isRef(Top.schema[f])
                        THEN /\ models' = CompletedLink(id, Top.schema[f].ref)
                             /\ stack' = moved
                             /\ UNCHANGED << pc, error >>
                        ELSE IF models[id].link # 0 /\ ~Has(Top.schema[f], "bool")
                        THEN /\ Called(Append(moved, Frame("links", models[id].link,
                                                           Top.schema[f])))
                             /\ UNCHANGED models
                        ELSE /\ stack' = moved
                             /\ UNCHANGED << pc, error, models >>
                   ELSE /\ stack' = moved
                        /\ UNCHANGED << pc, error, models >>
    /\ UNCHANGED << inSpec, spec, hoisted, inlinedRefs, data, index, inner >>
    /\ UNCHANGED << fileVars, callVars >>

\* line 634: the filter of the properties
LinksProperties ==
    /\ Running("links", "properties")
    /\ stack' = Moved([ Top EXCEPT !.at = "eachProperty",
                                   !.todo = PropertyCalls(Top.model, Top.schema) ])
    /\ UNCHANGED << pc, inSpec, spec, hoisted, inlinedRefs, error, models, data,
                    index, inner, visited, enriched >>
    /\ UNCHANGED << fileVars, callVars >>

\* lines 639-641: the branches of a composition
LinksBranches ==
    /\ Running("links", "branches")
    /\ IF models[Top.model].export \in COMPOSED_SCHEMA_TYPES
       THEN stack' = Moved([ Top EXCEPT !.at = "eachBranch",
                                        !.todo = BranchCalls(Top.model, Top.schema) ])
       ELSE stack' = Returned
    /\ UNCHANGED << pc, inSpec, spec, hoisted, inlinedRefs, error, models, data,
                    index, inner, visited, enriched >>
    /\ UNCHANGED << fileVars, callVars >>

\* lines 635-636 and 641-644: the next call of the forEach
LinksForEach ==
    /\ RunningIn("links", { "eachProperty", "eachBranch" })
    /\ IF Top.todo # << >> THEN NextCall("links")
       ELSE /\ stack' = IF Top.at = "eachProperty"
                        THEN Moved([ Top EXCEPT !.at = "branches" ])
                        ELSE Returned
            /\ UNCHANGED << pc, error >>
    /\ UNCHANGED << inSpec, spec, hoisted, inlinedRefs, models, data, index, inner,
                    visited, enriched >>
    /\ UNCHANGED << fileVars, callVars >>

\* lines 510-524: the fields read off the schema
SchemaProperties(schema) ==
    [ format |-> FormatOf(schema),
      isInteger |-> TypeOf(schema) = "integer",
      isShort |-> FormatOf(schema) = "int32",
      isLong |-> FormatOf(schema) = "int64",
      deprecated |-> Has(schema, "deprecated"),
      openapiType |-> TypeOf(schema),
      isNotSchema |-> Has(schema, "not"),
      isEnum |-> Has(schema, "enum") /\ Len(schema.enum) > 0,
      vendorExtensions |-> DOMAIN schema \cap { "x-tsapi-hoisted" },
      isHoisted |-> Has(schema, "x-tsapi-hoisted") ]

\* a top-level call of mutateWithOpenapiSchemaProperties: its visited set
\* is a new one
StartMetadata(id, schema) ==
    /\ stack' = << Frame("metadata", id, schema) >>
    /\ visited' = { }
    /\ enriched' = [ enriched EXCEPT !.call = << >> ]

\* the guard of lines 538 and 544 left out
LinkNeverVisited(id) ==
    FALSE

\* lines 538 and 544: visited.has(model.link), after visited.add(model)
LinkVisited(id) ==
    models[id].link \in visited \cup { id }

\* lines 510-550 (the mock data of lines 529-533 is not modelled)
MetadataEnter ==
    /\ Running("metadata", "enter")
    /\ LET id == Top.model
           arena == SetModel(models, id, SchemaProperties(Top.schema))
           f == CASE models[id].export = "dictionary" -> "additionalProperties"
                  [] models[id].export = "array" -> "items"
                  [] OTHER -> ""
           moved == Moved([ Top EXCEPT !.at = "properties" ])
       IN  IF TypesOverflow(arena, id)
           THEN /\ Thrown(StackOverflow, << >>)
                /\ UNCHANGED << models, visited, enriched >>
           ELSE /\ models' = mutateModelWithAdditionalTypes(arena, id)
                /\ visited' = visited \cup { id }
                /\ enriched' = [ enriched EXCEPT !.metadata = Bump(@, id),
                                                 !.call = Bump(@, id) ]
                /\ IF /\ f # ""
                      /\ models[id].link # 0
                      /\ Truthy(Top.schema, f)
                      /\ ~Has(Top.schema[f], "bool")
                      /\ ~LinkVisited(id)
                   THEN IF Has(resolveIfRef(spec, Top.schema[f]), "unresolvable")
                        THEN Thrown("Unable to resolve ref", Top.schema[f].ref)
                        ELSE Called(Append(moved,
                                           Frame("metadata", models[id].link,
                                                 resolveIfRef(spec, Top.schema[f]))))
                   ELSE /\ stack' = moved
                        /\ UNCHANGED << pc, error >>
    /\ UNCHANGED << inSpec, spec, hoisted, inlinedRefs, data, index, inner >>
    /\ UNCHANGED << fileVars, callVars >>

\* line 551: the filter of the properties
MetadataProperties ==
    /\ Running("metadata", "properties")
    /\ stack' = Moved([ Top EXCEPT !.at = "eachProperty",
                                   !.todo = PropertyCalls(Top.model, Top.schema) ])
    /\ UNCHANGED << pc, inSpec, spec, hoisted, inlinedRefs, error, models, data,
                    index, inner, visited, enriched >>
    /\ UNCHANGED << fileVars, callVars >>

\* lines 556-558: the branches of a composition
MetadataBranches ==
    /\ Running("metadata", "branches")
    /\ IF models[Top.model].export \in COMPOSED_SCHEMA_TYPES
       THEN stack' = Moved([ Top EXCEPT !.at = "eachBranch",
                                        !.todo = BranchCalls(Top.model, Top.schema) ])
       ELSE stack' = Returned
    /\ UNCHANGED << pc, inSpec, spec, hoisted, inlinedRefs, error, models, data,
                    index, inner, visited, enriched >>
    /\ UNCHANGED << fileVars, callVars >>

\* lines 552-553 and 558-561: the next call of the forEach
MetadataForEach ==
    /\ RunningIn("metadata", { "eachProperty", "eachBranch" })
    /\ IF Top.todo # << >> THEN NextCall("metadata")
       ELSE /\ stack' = IF Top.at = "eachProperty"
                        THEN Moved([ Top EXCEPT !.at = "branches" ])
                        ELSE Returned
            /\ UNCHANGED << pc, error >>
    /\ UNCHANGED << inSpec, spec, hoisted, inlinedRefs, models, data, index, inner,
                    visited, enriched >>
    /\ UNCHANGED << fileVars, callVars >>

\* ------------------------------------------------------------------------
\* buildData: operations, parameters, responses and models
\* ------------------------------------------------------------------------

RECURSIVE IntText(_)
\* `${n}` for a natural number
IntText(n) ==
    IF n < 10 THEN << DigitChars[n + 1] >>
    ELSE IntText(n \div 10) \o << DigitChars[(n % 10) + 1] >>

\* the characters of the names, in the order of their code units
CodeUnits ==
    << " ", "$", "'", "-", ".", "/" >> \o DigitChars \o << ":" >> \o UpperLetters
    \o << "[", "]", "_" >> \o LowerLetters \o << "{", "}", "~" >>

RECURSIVE Before(_, _)
\* a < b for two strings
Before(a, b) ==
    IF b = << >> THEN FALSE
    ELSE IF a = << >> THEN TRUE
    ELSE IF Head(a) = Head(b) THEN Before(Tail(a), Tail(b))
    ELSE IndexIn(Head(a), CodeUnits) < IndexIn(Head(b), CodeUnits)

RECURSIVE OrderBy(_, _)
\* _orderBy(items, key): ascending by Key, items of equal key in the order
\* they had
OrderBy(Key(_), items) ==
    IF items = << >> THEN << >>
    ELSE LET first == CHOOSE i \in DOMAIN items :
                          /\ \A j \in DOMAIN items : ~Before(Key(items[j]), Key(items[i]))
                          /\ \A j \in 1 .. (i - 1) : Before(Key(items[i]), Key(items[j]))
         IN  << items[first] >>
             \o OrderBy(Key, [ j \in 1 .. (Len(items) - 1) |->
                                 IF j < first THEN items[j] ELSE items[j + 1] ])

\* _uniq(items): the first of every value
Uniq(items) ==
    LET keep == SelectIdx(LAMBDA k : \A h \in 1 .. (k - 1) : items[h] # items[k],
                          Len(items), 1)
    IN  [ n \in DOMAIN keep |-> items[keep[n]] ]

RECURSIVE ByParameters(_)
\* replace(/{(.*?)}/g, "by-$1")
ByParameters(path) ==
    IF path = << >> THEN << >>
    ELSE IF Head(path) = "{" /\ \E i \in DOMAIN path : path[i] = "}"
    THEN LET close == CHOOSE i \in DOMAIN path :
                          /\ path[i] = "}"
                          /\ \A j \in 1 .. (i - 1) : path[j] # "}"
         IN  << "b", "y", "-" >> \o SubSeq(path, 2, close - 1)
             \o ByParameters(SubSeq(path, close + 1, Len(path)))
    ELSE << Head(path) >> \o ByParameters(Tail(path))

\* line 883: the name of an operation without operationId
GeneratedName(op) ==
    camelCase([ i \in DOMAIN ByParameters(op.path) |->
                  IF ByParameters(op.path)[i] \in { "/", ":" } THEN "-"
                  ELSE ByParameters(op.path)[i] ]
              \o << "-" >> \o op.method)

\* lodash kebabCase
kebabCase(str) ==
    LET w == words(str)
    IN  Concat([ i \in DOMAIN w |->
                   (IF i = 1 THEN << >> ELSE << "-" >>) \o toLowerCase(w[i]) ])

\* specOp.responses[key]: a sequence with the response, empty for undefined
SpecResponse(specOp, key) ==
    LET found == SelectSeq(specOp.responses, LAMBDA r : r.code = key)
    IN  IF found = << >> THEN << >> ELSE << found[Len(found)].response >>

\* the comparison of line 847 never succeeding
isNeverDefaultResponse(specOp, id) ==
    FALSE

\* line 847: the response is the parsed default response
isDefaultResponse(specOp, id) ==
    /\ models[id].code = 200
    /\ SpecResponse(specOp, S_default) # << >>
    /\ LET parsed == getOperationResponse(models, SpecResponse(specOp, S_default)[1], 200)
       IN  DeepModel(models, id) = DeepModel(parsed, Len(parsed))

\* line 872: the JSON content, or else the first
ResponseSchema(specResponse) ==
    LET json == SelectSeq(specResponse.content,
                          LAMBDA c : c.mediaType = "application/json")
    IN  IF json # << >> THEN << json[1] >>
        ELSE IF specResponse.content # << >> THEN << specResponse.content[1] >>
        ELSE << >>

MediaTypes(body) ==
    [ i \in DOMAIN body.content |-> body.content[i].mediaType ]

\* lines 827-841: the next operation, and its responses
AugmentOperation ==
    /\ pc = "operation"
    /\ stack = << >>
    /\ IF index > Len(data.operations)
       THEN /\ pc' = "models"
            /\ index' = 1
            /\ inner' = 1
            /\ UNCHANGED << models, data >>
       ELSE IF SpecOperation(data.operations[index]) = << >>
       THEN /\ pc' = "parameter"
            /\ inner' = 1
            /\ UNCHANGED << models, data, index >>
       ELSE LET responses == getOperationResponses(
                                 models,
                                 SpecOperation(data.operations[index])[1].responses,
                                 1, << >>)
            IN  /\ models' = responses.arena
                /\ data' = [ data EXCEPT !.operations[index].responses = responses.ids ]
                /\ pc' = "responses"
                /\ inner' = 1
                /\ UNCHANGED index
    /\ UNCHANGED << inSpec, spec, hoisted, inlinedRefs, error, stack, visited, enriched >>
    /\ UNCHANGED << fileVars, callVars >>

\* lines 845-878 for the next of [...responses, ...op.results], and lines
\* 882-884 after the last
NormalizeResponse ==
    /\ pc = "responses"
    /\ stack = << >>
    /\ LET op == data.operations[index]
           specOp == SpecOperation(op)[1]
           all == op.responses \o op.results
       IN  IF inner > Len(all)
           THEN /\ data' = IF Has(specOp, "operationId") THEN data
                           ELSE [ data EXCEPT !.operations[index].name = GeneratedName(op) ]
                /\ pc' = "parameter"
                /\ inner' = 1
                /\ UNCHANGED << models, stack, visited, enriched >>
           ELSE LET id == all[inner]
                    code == IF isDefaultResponse(specOp, id) THEN 0 ELSE models[id].code
                    matching == SpecResponse(specOp, IntText(code))
                IN  /\ inner' = inner + 1
                    /\ UNCHANGED << pc, data >>
                    /\ IF matching = << >>
                       THEN /\ models' = SetModel(models, id, [ code |-> code ])
                            /\ UNCHANGED << stack, visited, enriched >>
                       ELSE IF ~Has(matching[1], "content")
                       THEN /\ models' = SetModel(models, id, [ code |-> code,
                                                                type |-> T_void ])
                            /\ UNCHANGED << stack, visited, enriched >>
                       ELSE /\ models' = SetModel(models, id,
                                             [ code |-> code,
                                               mediaTypes |-> MediaTypes(matching[1]) ])
                            /\ IF ResponseSchema(matching[1]) # << >>
                               THEN StartMetadata(id, ResponseSchema(matching[1])[1])
                               ELSE UNCHANGED << stack, visited, enriched >>
    /\ UNCHANGED << inSpec, spec, hoisted, inlinedRefs, error, index >>
    /\ UNCHANGED << fileVars, callVars >>

\* lines 893-904: the next parameter
AugmentParameter ==
    /\ pc = "parameter"
    /\ stack = << >>
    /\ LET op == data.operations[index]
       IN  IF inner > Len(op.parameters)
           THEN /\ pc' = "operationNames"
                /\ UNCHANGED << stack, visited, enriched >>
           ELSE /\ pc' = "parameterKind"
                /\ IF specParameterSchema(op, models[op.parameters[inner]].prop) # << >>
                   THEN StartMetadata(op.parameters[inner],
                                      specParameterSchema(
                                          op, models[op.parameters[inner]].prop)[1])
                   ELSE UNCHANGED << stack, visited, enriched >>
    /\ UNCHANGED << inSpec, spec, hoisted, inlinedRefs, error, models, data, index,
                    inner >>
    /\ UNCHANGED << fileVars, callVars >>

S_body ==
    << "b", "o", "d", "y" >>

\* line 916: resolveIfRef(spec, specBody.content?.[parameter.mediaType]?.schema)
BodySchema(specOp, parameter) ==
    IF Has(specOp, "requestBody") /\ Has(parameter, "mediaType")
         /\ Has(specOp.requestBody, "content")
    THEN LET found == SelectSeq(specOp.requestBody.content,
                                LAMBDA c : c.mediaType = parameter.mediaType
                                           /\ Has(c, "schema"))
         IN  IF found = << >> THEN << >>
             ELSE << resolveIfRef(spec, found[1].schema) >>
    ELSE << >>

\* lines 927-934
collectionFormat(parameter, declared) ==
    LET style == IF Has(declared, "style") THEN declared.style
                 ELSE IF parameter.in = "query" THEN "form" ELSE "simple"
        explode == IF Has(declared, "explode") THEN declared.explode
                   ELSE style = "form"
    IN  IF parameter.in = "query"
        THEN IF explode THEN "multi"
             ELSE CASE style = "spaceDelimited" -> "ssv"
                    [] style = "pipeDelimited" -> "tsv"
                    [] style \in { "simple", "form" } -> "csv"
                    [] OTHER -> "multi"
        ELSE IF explode THEN "multi" ELSE "csv"

\* lines 906-935
ParameterKind ==
    /\ pc = "parameterKind"
    /\ stack = << >>
    /\ LET op == data.operations[index]
           id == op.parameters[inner]
           parameter == models[id]
       IN  IF parameter.in = "body"
           THEN /\ models' = SetModel(models, id,
                                [ name |-> IF parameter.export = "reference"
                                           THEN camelCase(parameter.type) ELSE S_body,
                                  prop |-> S_body ]
                                @@ (IF SpecOperation(op) # << >>
                                      /\ Has(SpecOperation(op)[1], "requestBody")
                                    THEN [ mediaTypes |->
                                             MediaTypes(SpecOperation(op)[1].requestBody) ]
                                    ELSE << >>))
                /\ IF SpecOperation(op) # << >>
                        /\ BodySchema(SpecOperation(op)[1], parameter) # << >>
                   THEN StartMetadata(id, BodySchema(SpecOperation(op)[1], parameter)[1])
                   ELSE UNCHANGED << stack, visited, enriched >>
           ELSE /\ models' = IF parameter.in \in { "query", "header" }
                                  /\ specParameter(op, parameter.prop) # << >>
                             THEN SetModel(models, id,
                                      [ collectionFormat |->
                                          collectionFormat(
                                              parameter,
                                              specParameter(op, parameter.prop)[1]) ])
                             ELSE models
                /\ UNCHANGED << stack, visited, enriched >>
    /\ pc' = "parameterTypes"
    /\ UNCHANGED << inSpec, spec, hoisted, inlinedRefs, error, data, index, inner >>
    /\ UNCHANGED << fileVars, callVars >>

\* line 937
ParameterTypes ==
    /\ pc = "parameterTypes"
    /\ stack = << >>
    /\ LET id == data.operations[index].parameters[inner]
       IN  IF TypesOverflow(models, id)
           THEN /\ Thrown(StackOverflow, << >>)
                /\ UNCHANGED << models, inner >>
           ELSE /\ models' = mutateModelWithAdditionalTypes(models, id)
                /\ inner' = inner + 1
                /\ pc' = "parameter"
                /\ UNCHANGED << stack, error >>
    /\ UNCHANGED << inSpec, spec, hoisted, inlinedRefs, data, index, visited, enriched >>
    /\ UNCHANGED << fileVars, callVars >>

RECURSIVE WithAdditionalTypes(_, _)
\* ids.forEach(mutateModelWithAdditionalTypes)
WithAdditionalTypes(arena, ids) ==
    IF ids = << >> THEN arena
    ELSE WithAdditionalTypes(mutateModelWithAdditionalTypes(arena, Head(ids)), Tail(ids))

\* lines 940-947
OperationNames ==
    /\ pc = "operationNames"
    /\ stack = << >>
    /\ LET op == data.operations[index]
       IN  IF \E i \in DOMAIN (op.responses \o op.results) :
                  TypesOverflow(models, (op.responses \o op.results)[i])
           THEN /\ Thrown(StackOverflow, << >>)
                /\ UNCHANGED << models, data, index >>
           ELSE /\ models' = WithAdditionalTypes(models, op.responses \o op.results)
                /\ data' = [ data EXCEPT !.operations[index] =
                               Assign(@, [ operationIdPascalCase |-> upperFirst(op.name),
                                           operationIdKebabCase |-> kebabCase(op.name),
                                           operationIdSnakeCase |->
                                               toPythonName("operation", op.name) ]) ]
                /\ index' = index + 1
                /\ pc' = "operation"
                /\ UNCHANGED << stack, error >>
    /\ UNCHANGED << inSpec, spec, hoisted, inlinedRefs, inner, visited, enriched >>
    /\ UNCHANGED << fileVars, callVars >>

\* spec.components.schemas[model.name]: a sequence with the schema, empty
\* for undefined
matchingSpecModel(id) ==
    IF HasEntry(spec.components.schemas, models[id].name)
    THEN << Lookup(spec.components.schemas, models[id].name) >>
    ELSE << >>

\* specModel.properties?.[property.name]
matchingSpecProperty(specModel, property) ==
    IF Has(specModel, "properties") /\ HasEntry(specModel.properties, property.name)
    THEN << Lookup(specModel.properties, property.name) >>
    ELSE << >>

\* lines 962-971: the next model
AugmentModel ==
    /\ pc = "models"
    /\ stack = << >>
    /\ IF index > Len(data.models)
       THEN /\ pc' = "assemble"
            /\ UNCHANGED << error, models, index, inner, stack, visited, enriched >>
       ELSE LET id == data.models[index]
                named == SetModel(models, id,
                             [ nameSnakeCase |-> toPythonName("model", models[id].name) ])
            IN  IF matchingSpecModel(id) = << >>
                THEN /\ models' = named
                     /\ index' = index + 1
                     /\ UNCHANGED << pc, error, inner, stack, visited, enriched >>
                ELSE IF resolveIfRef(spec, matchingSpecModel(id)[1]) = Unresolvable
                THEN /\ Thrown("Unable to resolve ref", matchingSpecModel(id)[1].ref)
                     /\ UNCHANGED << models, index, inner, visited, enriched >>
                ELSE /\ models' = named
                     /\ StartMetadata(id, resolveIfRef(spec, matchingSpecModel(id)[1]))
                     /\ pc' = "modelSummary"
                     /\ UNCHANGED << error, index, inner >>
    /\ UNCHANGED << inSpec, spec, hoisted, inlinedRefs, data >>
    /\ UNCHANGED << fileVars, callVars >>

\* lines 974-978: the types of the reference properties (the imports the
\* parser collects are reference types too), sorted, without the model itself
uniqueImports(id) ==
    LET references == SelectSeq(models[id].properties,
                                LAMBDA p : models[p].export = "reference")
        types == [ i \in DOMAIN references |-> models[references[i]].type ]
    IN  SelectSeq(OrderBy(LAMBDA t : t, Uniq(types)),
                  LAMBDA t : t # models[id].name)

\* line 985: the first unnamed dictionary property
additionalPropertiesProperty(id) ==
    LET found == SelectSeq(models[id].properties,
                           LAMBDA p : models[p].name = << >>
                                      /\ models[p].export = "dictionary")
    IN  IF found = << >> THEN 0 ELSE found[1]

\* lines 974-986
ModelSummary ==
    /\ pc = "modelSummary"
    /\ stack = << >>
    /\ LET id == data.models[index]
           specModel == resolveIfRef(spec, matchingSpecModel(id)[1])
       IN  models' = SetModel(models, id,
                         [ uniqueImports |-> uniqueImports(id),
                           deprecated |-> Truthy(specModel, "deprecated") ]
                         @@ (IF Truthy(specModel, "additionalProperties")
                             THEN [ additionalPropertiesProperty |->
                                      additionalPropertiesProperty(id) ]
                             ELSE << >>))
    /\ pc' = "property"
    /\ inner' = 1
    /\ UNCHANGED << inSpec, spec, hoisted, inlinedRefs, error, data, index, stack,
                    visited, enriched >>
    /\ UNCHANGED << fileVars, callVars >>

\* lines 989-996: the next property of the model
AugmentProperty ==
    /\ pc = "property"
    /\ stack = << >>
    /\ LET id == data.models[index]
           specModel == resolveIfRef(spec, matchingSpecModel(id)[1])
       IN  IF inner > Len(models[id].properties)
           THEN /\ pc' = "models"
                /\ index' = index + 1
                /\ UNCHANGED << error, stack, visited, enriched >>
           ELSE LET matching == matchingSpecProperty(
                                    specModel, models[models[id].properties[inner]])
                IN  IF matching = << >>
                    THEN /\ pc' = "propertyTypes"
                         /\ UNCHANGED << error, index, stack, visited, enriched >>
                    ELSE IF resolveIfRef(spec, matching[1]) = Unresolvable
                    THEN /\ Thrown("Unable to resolve ref", matching[1].ref)
                         /\ UNCHANGED << index, visited, enriched >>
                    ELSE /\ StartMetadata(models[id].properties[inner],
                                          resolveIfRef(spec, matching[1]))
                         /\ pc' = "propertyTypes"
                         /\ UNCHANGED << error, index >>
    /\ UNCHANGED << inSpec, spec, hoisted, inlinedRefs, models, data, inner >>
    /\ UNCHANGED << fileVars, callVars >>

\* line 998
PropertyTypes ==
    /\ pc = "propertyTypes"
    /\ stack = << >>
    /\ LET id == models[data.models[index]].properties[inner]
       IN  IF TypesOverflow(models, id)
           THEN /\ Thrown(StackOverflow, << >>)
                /\ UNCHANGED << models, inner >>
           ELSE /\ models' = mutateModelWithAdditionalTypes(models, id)
                /\ inner' = inner + 1
                /\ pc' = "property"
                /\ UNCHANGED << stack, error >>
    /\ UNCHANGED << inSpec, spec, hoisted, inlinedRefs, data, index, visited, enriched >>
    /\ UNCHANGED << fileVars, callVars >>

\* the names of the services, in the order the parser made them
ServiceNames ==
    Uniq([ i \in DOMAIN data.operations |-> data.operations[i].service ])

ServiceOperations(name) ==
    SelectSeq(data.operations, LAMBDA op : op.service = name)

\* the types of those of the Models that are references
ReferenceTypes(ids) ==
    LET references == SelectSeq(ids, LAMBDA id : models[id].export = "reference")
    IN  [ i \in DOMAIN references |-> models[references[i]].type ]

\* service.imports, which the parser collects from the results and the
\* parameters of the operations; lines 841 and 896: responseModelImports
\* and requestModelImports
ServiceImports(name) ==
    FlatMap(LAMBDA op : ReferenceTypes(op.results \o op.parameters), ServiceOperations(name))
    \o FlatMap(LAMBDA op : ReferenceTypes(op.parameters), ServiceOperations(name))
    \o FlatMap(LAMBDA op : ReferenceTypes(op.responses), ServiceOperations(name))

\* lines 950-953: the operations of the service by name, and its imports
Service(name) ==
    [ name |-> name,
      operations |-> OrderBy(LAMBDA op : op.name, ServiceOperations(name)),
      modelImports |-> OrderBy(LAMBDA import : import, Uniq(ServiceImports(name))) ]

\* the services as the parser made them
ServicesAsParsed ==
    [ i \in DOMAIN ServiceNames |-> Service(ServiceNames[i]) ]

\* line 1007: Default first, then by name
Services ==
    OrderBy(LAMBDA service : IF service.name = S_Default THEN << >> ELSE service.name,
            [ i \in DOMAIN ServiceNames |-> Service(ServiceNames[i]) ])

\* lines 950-953 and 1003-1021: the services, the operations by name, the
\* models by name
Assemble ==
    /\ pc = "assemble"
    /\ data' = [ models |-> OrderBy(LAMBDA id : models[id].name, data.models),
                 operations |-> OrderBy(LAMBDA op : op.name, data.operations),
                 services |-> Services ]
    /\ pc' = "done"
    /\ UNCHANGED << inSpec, spec, hoisted, inlinedRefs, error, models, index, inner,
                    stack, visited, enriched >>
    /\ UNCHANGED << fileVars, callVars >>

BuildNext ==
    \/ Parse
    \/ EnsureCompositeModels
    \/ CompositeEnter
    \/ CompositeRecurse
    \/ CompositeAssign
    \/ EnsureModelLinks
    \/ EnsureParameterLinks
    \/ LinksEnter
    \/ LinksProperties
    \/ LinksBranches
    \/ LinksForEach
    \/ MetadataEnter
    \/ MetadataProperties
    \/ MetadataBranches
    \/ MetadataForEach
    \/ AugmentOperation
    \/ NormalizeResponse
    \/ AugmentParameter
    \/ ParameterKind
    \/ ParameterTypes
    \/ OperationNames
    \/ AugmentModel
    \/ ModelSummary
    \/ AugmentProperty
    \/ PropertyTypes
    \/ Assemble

\* buildData on the documents of BuildDocuments
BuildSpec ==
    BuildInit /\ [][DocNext \/ BuildNext]_vars

\* buildData is one synchronous call: it runs on until it returns or throws
FairBuildSpec ==
    BuildSpec /\ WF_vars(DocNext \/ BuildNext)

\* ------------------------------------------------------------------------
\* The run: the files of the output path, what the templates render to,
\* cleaning and writing.  A path is relative to the output path; a file
\* text is a sequence of characters in which a ###TSAPI_WRITE_FILE### or
\* ###/TSAPI_WRITE_FILE### marker counts as one character.
\* ------------------------------------------------------------------------

TSAPI_WRITE_FILE_START ==
    "###TSAPI_WRITE_FILE###"

TSAPI_WRITE_FILE_END ==
    "###/TSAPI_WRITE_FILE###"

MANIFEST_FILE_PATH ==
    << ".", "t", "s", "a", "p", "i", "-", "m", "a", "n", "i", "f", "e", "s", "t" >>

LEGACY_MANIFEST_FILE_PATH ==
    << ".", "o", "p", "e", "n", "a", "p", "i", "-", "g", "e", "n", "e", "r", "a", "t", "o", "r", "/", "F", "I", "L", "E", "S" >>

\* a JavaScript value that is true, false or undefined
Undefined ==
    "undefined"

True ==
    "true"

False ==
    "false"

\* a || b
Or(a, b) ==
    IF a = True THEN a ELSE b

\* a ?? b
Coalesce(a, b) ==
    IF a = Undefined THEN b ELSE a

\* The header of a segment is JSON text.  The templates of the model write
\* a WriteFileConfig as {dnoig}: d the dir, n the name, o the overwrite
\* flag (t, f, or - for a config without one), i the id and g the
\* generateConditionallyId (- for a config without one); ext is ".x".
WriteFileConfig(d, n, o, i, g) ==
    LET present == { "dir", "name", "ext" }
                       \cup (IF o = "-" THEN { } ELSE { "overwrite" })
                       \cup (IF i = "-" THEN { } ELSE { "id" })
                       \cup (IF g = "-" THEN { } ELSE { "generateConditionallyId" })
    IN  [ f \in present |->
            CASE f = "dir" -> << d >>
              [] f = "name" -> << n >>
              [] f = "ext" -> << ".", "x" >>
              [] f = "overwrite" -> IF o = "t" THEN True ELSE False
              [] f = "id" -> << i >>
              [] f = "generateConditionallyId" -> << g >> ]

\* JSON.parse(configString): throws on a text that is no JSON
JSONparse(text) ==
    IF /\ Len(text) = 7
       /\ text[1] = "{"
       /\ text[7] = "}"
       /\ text[2] \in { ".", "s", "/" }
       /\ text[3] \in { "a", "b", "c" }
       /\ text[4] \in { "t", "f", "-" }
       /\ text[5] \in { "A", "B", "C", "-" }
       /\ text[6] \in { "A", "B", "C", "-" }
    THEN [ throws |-> FALSE,
           value |-> WriteFileConfig(text[2], text[3], text[4], text[5], text[6]) ]
    ELSE [ throws |-> TRUE, value |-> EmptyObject ]

\* path.join(dir, file) for a dir of one segment, or the root
pathJoin(dir, file) ==
    IF dir = << "." >> THEN file
    ELSE IF dir = << "/" >> THEN dir \o file
    ELSE dir \o << "/" >> \o file

\* path.join(outputPath, path) as a path under the output path: an
\* absolute path is joined like a relative one
joinOutputPath(path) ==
    IF StartsWith(path, << "/" >>) THEN Tail(path) ELSE path

\* Array.prototype.join('') whatever the separator
JoinWithout(parts, sep) ==
    Concat(parts)

RECURSIVE JoinWith(_, _)
\* Array.prototype.join(sep)
JoinWith(parts, sep) ==
    IF parts = << >> THEN << >>
    ELSE IF Len(parts) = 1 THEN parts[1]
    ELSE parts[1] \o << sep >> \o JoinWith(Tail(parts), sep)

\* fs.existsSync of path.resolve(outputPath, path): the files are named by
\* their paths under the output path, and a file elsewhere by its absolute
\* path, which path.resolve returns as it is
existsSync(files, path) ==
    path \in DOMAIN files

\* fs.existsSync of a path as it stands: a relative one is resolved
\* against the working directory of the process
existsInCwd(files, path) ==
    IF args.cwd = "outputPath" \/ StartsWith(path, << "/" >>) THEN existsSync(files, path)
    ELSE path \in args.cwdFiles

\* fs.writeFileSync
writeFileSync(files, path, text) ==
    [ p \in DOMAIN files \cup { path } |-> IF p = path THEN text ELSE files[p] ]

\* fs.unlinkSync of every path of a set
unlinkSync(files, paths) ==
    [ p \in DOMAIN files \ paths |-> files[p] ]

\* the legacy manifest whenever there is one
manifestPathLegacyFirst(files) ==
    IF existsSync(files, LEGACY_MANIFEST_FILE_PATH) THEN LEGACY_MANIFEST_FILE_PATH
    ELSE MANIFEST_FILE_PATH

\* lines 222-229: the manifest cleanGeneratedCode reads
manifestPath(files) ==
    IF ~existsSync(files, MANIFEST_FILE_PATH) /\ existsSync(files, LEGACY_MANIFEST_FILE_PATH)
    THEN LEGACY_MANIFEST_FILE_PATH
    ELSE MANIFEST_FILE_PATH

\* lines 233-238: new Set(readFileSync(manifestPath).split("\n").filter(x => x))
previouslyGeneratedFiles(files) ==
    IF existsSync(files, manifestPath(files))
    THEN Uniq(SelectSeq(SplitOn(files[manifestPath(files)], "\n", << >>),
                        LAMBDA line : line # << >>))
    ELSE << >>

\* lines 239-244: the files unlinked, in the order of the manifest
Unlinked(files) ==
    SelectSeq(previouslyGeneratedFiles(files), LAMBDA path : existsSync(files, path))

\* lines 251-252: the segments of a rendered text
DestinationFileTemplates(contents) ==
    SelectSeq(SplitOn(contents, TSAPI_WRITE_FILE_START, << >>),
              LAMBDA t : TSAPI_WRITE_FILE_END \in Range(t))

\* lines 255-271: the SplitFile of a segment; files is the output path as
\* it is when the segment is read
SplitFile(files, destinationFileTemplate) ==
    LET parts == SplitOn(destinationFileTemplate, TSAPI_WRITE_FILE_END, << >>)
        config == JSONparse(parts[1]).value
        newFilePath == pathJoin(config.dir, config.name \o config.ext)
    IN  [ contents |-> parts[2],
          pathRelativeToOutputPath |-> newFilePath,
          shouldWrite |-> Or(IF existsInCwd(files, newFilePath) THEN False ELSE True,
                             IF Has(config, "overwrite") THEN config.overwrite ELSE Undefined),
          config |-> config ]

\* every segment of every rendered text, in order
AllDestinationFileTemplates(renderedFileContents) ==
    FlatMap(DestinationFileTemplates, renderedFileContents)

\* line 257 throws for one of the segments
SplitThrows(renderedFileContents) ==
    \E i \in DOMAIN AllDestinationFileTemplates(renderedFileContents) :
        JSONparse(SplitOn(AllDestinationFileTemplates(renderedFileContents)[i],
                          TSAPI_WRITE_FILE_END, << >>)[1]).throws

\* line 274: splitFilesById[id], the last SplitFile with that id, and
\* undefined when there is none
splitFilesById(split, id) ==
    LET with == SelectIdx(LAMBDA i : Has(split[i].config, "id") /\ split[i].config.id = id,
                          Len(split), 1)
    IN  IF with = << >> THEN << >> ELSE << split[with[Len(with)]] >>

\* line 282: splitFilesById[config.generateConditionallyId ?? '']?.shouldWrite ?? true
conditionalShouldWrite(split, config) ==
    LET found == IF Has(config, "generateConditionallyId")
                 THEN splitFilesById(split, config.generateConditionallyId)
                 ELSE << >>
    IN  Coalesce(IF found = << >> THEN Undefined ELSE found[1].shouldWrite, True)

\* line 285: shouldWrite && conditionalShouldWrite
Writes(split, i) ==
    split[i].shouldWrite = True /\ conditionalShouldWrite(split, split[i].config) = True

\* the texts the templates of the run render to when none throws
Templates ==
    FlatMap(LAMBDA dir : dir.templates, args.templateDirs)

renderedFiles ==
    [ t \in DOMAIN Templates |-> Templates[t].contents ]

\* lines 1065-1067: resolveTemplateDir of every template directory, and
\* lines 1070-1072: a render is started for every template
ReadTemplates ==
    /\ pc = "done"
    /\ IF \E d \in DOMAIN args.templateDirs : ~args.templateDirs[d].exists
       THEN /\ pc' = "failed"
            /\ error' = [ message |-> "Template directory does not exist!", name |-> << >> ]
            /\ renders' = renders
       ELSE /\ pc' = "render"
            /\ error' = error
            /\ renders' = [ t \in DOMAIN Templates |-> "pending" ]
    /\ UNCHANGED << inSpec, spec, hoisted, inlinedRefs, dataVars >>
    /\ UNCHANGED << args, fs, splitFiles, generatedFilePaths, log >>
    /\ UNCHANGED callVars

\* line 1071: ejs.renderFile of one template settles; the renders settle
\* in any order
RenderFile(t) ==
    /\ pc = "render"
    /\ renders[t] = "pending"
    /\ renders' = [ renders EXCEPT ![t] = IF Templates[t].throws THEN "rejected"
                                            ELSE "fulfilled" ]
    /\ UNCHANGED << docVars, dataVars >>
    /\ UNCHANGED << args, fs, splitFiles, generatedFilePaths, log >>
    /\ UNCHANGED callVars

\* line 1070: Promise.all rejects as soon as one render has rejected
RenderRejected ==
    /\ pc = "render"
    /\ \E t \in DOMAIN renders : renders[t] = "rejected"
    /\ pc' = "failed"
    /\ error' = [ message |-> "render error", name |-> << >> ]
    /\ UNCHANGED << inSpec, spec, hoisted, inlinedRefs, dataVars, fileVars >>
    /\ UNCHANGED callVars

\* Promise.any: fulfilled once one render is
RenderedAny ==
    /\ pc = "render"
    /\ \E t \in DOMAIN renders : renders[t] = "fulfilled"
    /\ pc' = "clean"
    /\ UNCHANGED << inSpec, spec, hoisted, inlinedRefs, error, dataVars, fileVars >>
    /\ UNCHANGED callVars

\* line 1070: Promise.all is fulfilled once every render is
Rendered ==
    /\ pc = "render"
    /\ \A t \in DOMAIN renders : renders[t] = "fulfilled"
    /\ pc' = "clean"
    /\ UNCHANGED << inSpec, spec, hoisted, inlinedRefs, error, dataVars, fileVars >>
    /\ UNCHANGED callVars

\* lines 221-246
cleanGeneratedCode ==
    /\ pc = "clean"
    /\ fs' = unlinkSync(fs, Range(Unlinked(fs)))
    /\ log' = log \o [ i \in DOMAIN Unlinked(fs) |->
                         [ op |-> "unlink", path |-> Unlinked(fs)[i], segment |-> 0 ] ]
    /\ pc' = "split"
    /\ UNCHANGED << inSpec, spec, hoisted, inlinedRefs, error, dataVars >>
    /\ UNCHANGED << args, renders, splitFiles, generatedFilePaths >>
    /\ UNCHANGED callVars

\* lines 249-276
SplitFiles ==
    /\ pc = "split"
    /\ IF SplitThrows(renderedFiles)
       THEN /\ pc' = "failed"
            /\ error' = [ message |-> "Unexpected token in JSON", name |-> << >> ]
            /\ UNCHANGED << splitFiles, index >>
       ELSE /\ pc' = "write"
            /\ error' = error
            /\ splitFiles' = [ i \in DOMAIN AllDestinationFileTemplates(renderedFiles) |->
                                 SplitFile(fs, AllDestinationFileTemplates(renderedFiles)[i]) ]
            /\ index' = 1
    /\ UNCHANGED << inSpec, spec, hoisted, inlinedRefs >>
    /\ UNCHANGED << models, data, inner, stack, visited, enriched >>
    /\ UNCHANGED << args, fs, renders, generatedFilePaths, log >>
    /\ UNCHANGED callVars

\* lines 279-298: one turn of splitFiles.forEach
WriteFile ==
    /\ pc = "write"
    /\ index <= Len(splitFiles)
    /\ IF Writes(splitFiles, index)
       THEN /\ fs' = writeFileSync(fs,
                                   joinOutputPath(splitFiles[index].pathRelativeToOutputPath),
                                   splitFiles[index].contents)
            /\ log' = Append(log, [ op |-> "write",
                                    path |-> joinOutputPath(
                                        splitFiles[index].pathRelativeToOutputPath),
                                    segment |-> index ])
            /\ generatedFilePaths' =
                   IF /\ Has(splitFiles[index].config, "overwrite")
                      /\ splitFiles[index].config.overwrite = True
                   THEN Append(generatedFilePaths, splitFiles[index].pathRelativeToOutputPath)
                   ELSE generatedFilePaths
       ELSE UNCHANGED << fs, log, generatedFilePaths >>
    /\ index' = index + 1
    /\ UNCHANGED << docVars, args, renders, splitFiles >>
    /\ UNCHANGED << models, data, inner, stack, visited, enriched >>
    /\ UNCHANGED callVars

\* line 301
WriteManifest ==
    /\ pc = "write"
    /\ index > Len(splitFiles)
    /\ fs' = writeFileSync(fs, MANIFEST_FILE_PATH, JoinWith(generatedFilePaths, "\n"))
    /\ log' = Append(log, [ op |-> "write", path |-> MANIFEST_FILE_PATH, segment |-> 0 ])
    /\ pc' = "written"
    /\ UNCHANGED << inSpec, spec, hoisted, inlinedRefs, error, dataVars >>
    /\ UNCHANGED << args, renders, splitFiles, generatedFilePaths >>
    /\ UNCHANGED callVars

\* ------------------------------------------------------------------------
\* The runs: what the templates render to, and the output path before
\* ------------------------------------------------------------------------

Header(d, n, o, i, g) ==
    << "{", d, n, o, i, g, "}" >>

Segment(header, body) ==
    << TSAPI_WRITE_FILE_START >> \o header \o << TSAPI_WRITE_FILE_END >> \o body

F_a ==
    << "a", ".", "x" >>

F_b ==
    << "b", ".", "x" >>

F_c ==
    << "s", "/", "c", ".", "x" >>

Template(contents) ==
    [ throws |-> FALSE, contents |-> contents ]

\* a.x with id A; b.x with id B, conditional on A; s/c.x, conditional on B
Chain(oA, oB) ==
    Template(<< "#" >> \o Segment(Header(".", "a", oA, "A", "-"), << "1" >>)
                       \o Segment(Header(".", "b", oB, "B", "A"), << "2" >>)
                       \o Segment(Header("s", "c", "t", "-", "B"), << "3" >>))

\* b.x conditional on A; the segment with id A is in another template
Dependent ==
    Template(Segment(Header(".", "b", "t", "-", "A"), << "2" >>))

Referenced(oA) ==
    Template(Segment(Header(".", "a", oA, "A", "-"), << "1" >>))

\* ejs.renderFile throws
Throwing ==
    [ throws |-> TRUE, contents |-> << >> ]

\* the header of the second segment is no JSON
Malformed ==
    Template(Segment(Header(".", "a", "t", "-", "-"), << "1" >>)
                 \o Segment(<< "{", "a" >>, << "2" >>))

NoSegments ==
    Template(<< "#" >>)

\* two segments of one path
Twice ==
    Template(Segment(Header(".", "a", "t", "-", "-"), << "1" >>)
                 \o Segment(Header(".", "a", "t", "-", "-"), << "2" >>))

TemplateDir(templates) ==
    [ exists |-> TRUE, templates |-> templates ]

MissingDir ==
    [ exists |-> FALSE, templates |-> << >> ]

Flags ==
    { "t", "f", "-" }

TemplateDirs ==
    { << TemplateDir(<< Chain(oA, oB) >>) >> : oA \in Flags, oB \in Flags }
    \cup { << TemplateDir(<< Dependent >>), TemplateDir(<< Referenced(oA) >>) >> :
             oA \in Flags }
    \cup { << TemplateDir(<< Chain("t", "t") >>), MissingDir >>,
           << TemplateDir(<< Chain("t", "t"), Throwing >>) >>,
           << TemplateDir(<< Chain("t", "t"), Malformed >>) >>,
           << TemplateDir(<< NoSegments, Twice >>) >> }

\* the process runs in the output path, or elsewhere beside a file a.x
Arguments ==
    { [ templateDirs |-> t, cwd |-> c.cwd, cwdFiles |-> c.cwdFiles ] :
        t \in TemplateDirs,
        c \in { [ cwd |-> "outputPath", cwdFiles |-> { } ],
                [ cwd |-> "elsewhere", cwdFiles |-> { F_a } ] } }

\* a manifest of an earlier run, with an empty line and a path listed twice
ManifestText ==
    JoinWith(<< F_a, << >>, F_c, F_a >>, "\n")

LegacyText ==
    JoinWith(<< F_b >>, "\n")

Files(paths, text) ==
    [ path \in paths |->
        IF path = MANIFEST_FILE_PATH THEN ManifestText
        ELSE IF path = LEGACY_MANIFEST_FILE_PATH THEN LegacyText
        ELSE text ]

\* the output path before the run: a.x and b.x are there or not; without a
\* manifest, with the current one (and the s/c.x it lists), with the legacy
\* one, or with both
OutputPaths ==
    { Files(user \cup manifests, << "0" >>) :
        user \in SUBSET { F_a, F_b },
        manifests \in { { }, { MANIFEST_FILE_PATH, F_c } } }
    \cup { Files({ F_a, F_b } \cup manifests, << "0" >>) :
             manifests \in { { LEGACY_MANIFEST_FILE_PATH },
                             { LEGACY_MANIFEST_FILE_PATH, MANIFEST_FILE_PATH } } }

DefaultArguments ==
    [ templateDirs |-> << TemplateDir(<< Chain("t", "t") >>) >>,
      cwd |-> "outputPath", cwdFiles |-> { } ]

\* every document of BuildDocuments is compiled in one run; a document
\* with one operation without parameters is compiled in every run
Runs ==
    [ spec : BuildDocuments, args : { DefaultArguments },
      fs : { Files({ F_a, MANIFEST_FILE_PATH, F_c }, << "0" >>) } ]
    \cup [ spec : { WithParameters(<< >>) }, args : Arguments, fs : OutputPaths ]

GenInit ==
    /\ pc = "clone"
    /\ \E run \in Runs :
           /\ inSpec = run.spec
           /\ args = run.args
           /\ fs = run.fs
    /\ spec = EmptyObject
    /\ hoisted = << >>
    /\ inlinedRefs = { }
    /\ error = NoError
    /\ NoData
    /\ NoRenders
    /\ NoCalls

GenNext ==
    \/ ReadTemplates
    \/ \E t \in DOMAIN renders : RenderFile(t)
    \/ RenderRejected
    \/ Rendered
    \/ cleanGeneratedCode
    \/ SplitFiles
    \/ WriteFile
    \/ WriteManifest

GenSpec ==
    GenInit /\ [][DocNext \/ BuildNext \/ GenNext]_vars

\* ------------------------------------------------------------------------
\* Runs one after another against one output path.  The files are what a
\* run leaves to the next; refCalls holds, for every run that has returned,
\* the files it wrote with overwrite set.
\* ------------------------------------------------------------------------

MaxRuns ==
    2

\* a.x written under the root directory
Rooted ==
    Template(Segment(Header("/", "a", "t", "-", "-"), << "4" >>))

\* the templates of a run: the chain, a.x alone, nothing, a.x from two
\* templates, a.x with an absolute dir, and a template that throws
RunTemplateDirs ==
    { << TemplateDir(<< Chain("t", "t") >>) >>,
      << TemplateDir(<< Chain("f", "t") >>) >>,
      << TemplateDir(<< Referenced("t") >>) >>,
      << TemplateDir(<< NoSegments >>) >>,
      << TemplateDir(<< Twice >>), TemplateDir(<< Referenced("t") >>) >>,
      << TemplateDir(<< Rooted >>) >>,
      << TemplateDir(<< Referenced("t"), Throwing >>) >> }

RunArguments ==
    [ templateDirs : RunTemplateDirs, cwd : { "outputPath" }, cwdFiles : { { } } ]

\* the files a run has written with overwrite set, as it leaves them
OverwrittenFiles ==
    { joinOutputPath(splitFiles[i].pathRelativeToOutputPath) :
        i \in { j \in DOMAIN splitFiles :
                  /\ \E e \in DOMAIN log : log[e].op = "write" /\ log[e].segment = j
                  /\ Has(splitFiles[j].config, "overwrite")
                  /\ splitFiles[j].config.overwrite = True } }

\* the first run starts where buildData has returned; the output path is
\* empty or holds a.x
RunsInit ==
    /\ pc = "done"
    /\ args \in RunArguments
    /\ fs \in { [ path \in { } |-> << >> ], Files({ F_a }, << "0" >>) }
    /\ inSpec = EmptyObject
    /\ spec = EmptyObject
    /\ hoisted = << >>
    /\ inlinedRefs = { }
    /\ error = NoError
    /\ NoData
    /\ NoRenders
    /\ NoCalls

\* the default export is called again, with the templates of the next run:
\* lines 1048-1067, the data compiled is not looked at by the steps modelled
NextRun ==
    /\ pc = "written"
    /\ Len(refCalls) < MaxRuns - 1
    /\ refCalls' = Append(refCalls, [ overwritten |-> OverwrittenFiles ])
    /\ \E next \in RunArguments : args' = next
    /\ pc' = "done"
    /\ renders' = << >>
    /\ splitFiles' = << >>
    /\ generatedFilePaths' = << >>
    /\ log' = << >>
    /\ index' = 0
    /\ UNCHANGED << inSpec, spec, hoisted, inlinedRefs, error, fs >>
    /\ UNCHANGED << models, data, inner, stack, visited, enriched >>
    /\ UNCHANGED << refArg, refResult >>

RunsNext ==
    \/ ReadTemplates
    \/ \E t \in DOMAIN renders : RenderFile(t)
    \/ RenderRejected
    \/ Rendered
    \/ cleanGeneratedCode
    \/ SplitFiles
    \/ WriteFile
    \/ WriteManifest
    \/ NextRun

RunsSpec ==
    RunsInit /\ [][RunsNext]_vars

\* ------------------------------------------------------------------------
\* resolveRef and resolveIfRef called on their own, on documents that hold
\* a reference, a literal and an object without additional properties
\* among their schemas
\* ------------------------------------------------------------------------

MaxCalls ==
    2

N_R ==
    << "R" >>

N_L ==
    << "L" >>

N_Z ==
    << "Z" >>

Literals ==
    { "false", "true", "null", "0", "" }

\* A an object, R a reference to A, N a literal, M an object whose
\* additionalProperties is false, L an array of strings
ResolveEntries(literal) ==
    << ObjectA,
       Entry(N_R, SchemaRef(N_A)),
       Entry(N_N, Literal(literal)),
       Entry(N_M, [ type |-> "object", additionalProperties |-> Literal("false") ]),
       Entry(N_L, ArraySchema(StringSchema)) >>

\* every document that holds A and some of the other entries
ResolveDocuments ==
    { Schemas(LET kept == SelectIdx(LAMBDA i : i = 1 \/ i \in keep, 5, 1)
              IN  [ k \in DOMAIN kept |-> ResolveEntries(literal)[kept[k]] ]) :
        keep \in SUBSET { 2, 3, 4, 5 }, literal \in Literals }

ResolveRefs ==
    { SchemaRef(N_A), SchemaRef(N_R), SchemaRef(N_N), SchemaRef(N_M), SchemaRef(N_Z),
      SchemaRef(N_M \o << "/" >> \o S_additionalProperties),
      SchemaRef(N_L \o << "/" >> \o S_items) }

ResolveNodes ==
    ResolveRefs \cup { StringSchema, ObjectSchema(P_b, StringSchema), Literal("false") }

ResolveInit ==
    /\ \/ pc = "resolveIfRef" /\ refArg \in ResolveNodes
       \/ pc = "resolveRef" /\ refArg \in ResolveRefs
    /\ inSpec \in ResolveDocuments
    /\ spec = inSpec
    /\ refResult = refArg
    /\ refCalls = << >>
    /\ hoisted = << >>
    /\ inlinedRefs = { }
    /\ error = NoError
    /\ NoData
    /\ args = NoArgs
    /\ fs = [ path \in { } |-> << >> ]
    /\ NoRenders

\* lines 97-104, called with spec and refArg.$ref
ResolveRef ==
    /\ pc = "resolveRef"
    /\ IF Has(resolveRef(spec, refArg.ref), "unresolvable")
       THEN /\ pc' = "failed"
            /\ error' = [ message |-> "Unable to resolve ref", name |-> refArg.ref ]
            /\ refResult' = refResult
       ELSE /\ pc' = "returned"
            /\ error' = error
            /\ refResult' = resolveRef(spec, refArg.ref)
    /\ UNCHANGED << inSpec, spec, hoisted, inlinedRefs, dataVars, fileVars >>
    /\ UNCHANGED << refArg, refCalls >>

\* lines 109-115, called with spec and refArg
ResolveIfRef ==
    /\ pc = "resolveIfRef"
    /\ IF isRef(refArg) /\ Has(resolveRef(spec, refArg.ref), "unresolvable")
       THEN /\ pc' = "failed"
            /\ error' = [ message |-> "Unable to resolve ref", name |-> refArg.ref ]
            /\ UNCHANGED << refResult, refCalls >>
       ELSE /\ pc' = "returned"
            /\ error' = error
            /\ refResult' = resolveIfRef(spec, refArg)
            /\ refCalls' = Append(refCalls, [ possibleRef |-> refArg,
                                              resolved |-> resolveIfRef(spec, refArg) ])
    /\ UNCHANGED << inSpec, spec, hoisted, inlinedRefs, dataVars, fileVars >>
    /\ UNCHANGED refArg

\* the caller hands what a call returned to resolveIfRef
ResolveAgain ==
    /\ pc = "returned"
    /\ Len(refCalls) < MaxCalls
    /\ refArg' = refResult
    /\ pc' = "resolveIfRef"
    /\ UNCHANGED << inSpec, spec, hoisted, inlinedRefs, error, dataVars, fileVars >>
    /\ UNCHANGED << refResult, refCalls >>

ResolveNext ==
    \/ ResolveRef
    \/ ResolveIfRef
    \/ ResolveAgain

ResolveSpec ==
    ResolveInit /\ [][ResolveNext]_vars

\* ------------------------------------------------------------------------
\* splitRef on its own: called with the pointer to one encoded segment
\* ------------------------------------------------------------------------

\* the length of the segments
MaxSegment ==
    3

PointerAlphabet ==
    { "~", "/", "0", "1", "a" }

RECURSIVE Segments(_)
\* the segments of at most n characters
Segments(n) ==
    IF n = 0 THEN { << >> }
    ELSE Segments(n - 1)
         \cup { Append(s, c) : s \in Segments(n - 1), c \in PointerAlphabet }

\* a segment as a JSON Pointer writes it: '~' as '~0', then '/' as '~1'
encodePointer(segment) ==
    ReplaceAll(ReplaceAll(segment, << "~" >>, << "~", "0" >>), << "/" >>, << "~", "1" >>)

\* refCalls holds the segment the pointer was written from
PointerInit ==
    /\ pc = "splitRef"
    /\ \E segment \in Segments(MaxSegment) :
         /\ refArg = [ ref |-> << "#", "/" >> \o encodePointer(segment) ]
         /\ refCalls = << segment >>
    /\ refResult = << >>
    /\ inSpec = EmptyObject
    /\ spec = EmptyObject
    /\ hoisted = << >>
    /\ inlinedRefs = { }
    /\ error = NoError
    /\ NoData
    /\ args = NoArgs
    /\ fs = [ path \in { } |-> << >> ]
    /\ NoRenders

\* lines 89-93, called with refArg.$ref
SplitRef ==
    /\ pc = "splitRef"
    /\ refResult' = splitRef(refArg.ref)
    /\ pc' = "split"
    /\ UNCHANGED << inSpec, spec, hoisted, inlinedRefs, error, dataVars, fileVars >>
    /\ UNCHANGED << refArg, refCalls >>

PointerNext ==
    SplitRef

PointerSpec ==
    PointerInit /\ [][PointerNext]_vars

\* ------------------------------------------------------------------------
\* toPythonName and toJavaName on their own
\* ------------------------------------------------------------------------

\* the names projected: the reserved words of both tables, as they are,
\* capitalised, in camel case, and escaped with a leading underscore
InputNames ==
    LET reserved == PYTHON_KEYWORDS \cup JAVA_KEYWORDS
    IN  reserved
        \cup { upperFirst(w) : w \in reserved }
        \cup { camelCase(w) : w \in reserved }
        \cup { << "_" >> \o w : w \in reserved }

NamedEntities ==
    { "model", "property", "operation" }

NameInit ==
    /\ pc = "name"
    /\ refArg \in [ namedEntity : NamedEntities, name : InputNames ]
    /\ refResult = EmptyObject
    /\ refCalls = << >>
    /\ inSpec = EmptyObject
    /\ spec = EmptyObject
    /\ hoisted = << >>
    /\ inlinedRefs = { }
    /\ error = NoError
    /\ NoData
    /\ args = NoArgs
    /\ fs = [ path \in { } |-> << >> ]
    /\ NoRenders

\* lines 162-181 and 204-216, called with the entity kind and the name
ProjectName ==
    /\ pc = "name"
    /\ refResult' = [ pythonName |-> toPythonName(refArg.namedEntity, refArg.name),
                      javaName |-> toJavaName(refArg.name) ]
    /\ pc' = "named"
    /\ UNCHANGED << inSpec, spec, hoisted, inlinedRefs, error, dataVars, fileVars >>
    /\ UNCHANGED << refArg, refCalls >>

NameNext ==
    ProjectName

NameSpec ==
    NameInit /\ [][NameNext]_vars

\* ------------------------------------------------------------------------
\* Claims about the document passes
\* ------------------------------------------------------------------------

\* a schema that needs a generated named type
RequiresNamedType(schema) ==
    /\ ~isRef(schema)
    /\ \/ TypeOf(schema) = "object" /\ Has(schema, "properties")
       \/ isCompositeSchema(schema)
       \/ isStringEnum(schema)

RECURSIVE HoldsInlineType(_)
\* some schema below this one, at any depth, needs a named type and is inline
HoldsInlineType(schema) ==
    \E i \in DOMAIN ChildSchemas(schema) :
        \/ RequiresNamedType(ChildSchemas(schema)[i])
        \/ HoldsInlineType(ChildSchemas(schema)[i])

OperationRootSchemas(doc) ==
    Concat([ o \in DOMAIN doc.paths |-> OperationSchemas(doc.paths[o].operation) ])

\* C1: after operation-body hoisting and inline hoisting, no schema of
\* components.schemas and no schema of an operation holds, at any depth, an
\* inline object with properties, an inline composite or an inline string
\* enum: each such schema is a components.schemas entry reached by $ref.
C1_HoistingClosure ==
    pc = "inlineRefs" =>
        /\ \A i \in DOMAIN spec.components.schemas :
               ~HoldsInlineType(spec.components.schemas[i].schema)
        /\ \A i \in DOMAIN OperationRootSchemas(spec) :
               /\ ~RequiresNamedType(OperationRootSchemas(spec)[i])
               /\ ~HoldsInlineType(OperationRootSchemas(spec)[i])

\* every $ref of the document, at any depth
AllRefs(doc) ==
    UNION { RefsVisited(doc, RootSchemas(doc)[i]) : i \in DOMAIN RootSchemas(doc) }

\* C2: in the document handed to the base parser, after hoisting, inlining
\* and the deletion of the inlined entries, every $ref resolves to an entry
\* of components.schemas.
C2_EveryRefResolves ==
    pc = "parse" =>
        \A ref \in AllRefs(spec) : ~Has(resolveRef(spec, ref), "unresolvable")

InputSchemaNames ==
    IF Has(inSpec, "components")
    THEN { inSpec.components.schemas[i].name : i \in DOMAIN inSpec.components.schemas }
    ELSE { }

\* C3: every name hoisting registers a schema under differs from every other
\* name it registers and from the names components.schemas held before, so
\* no registration overwrites an entry.
C3_HoistedNamesUnique ==
    /\ \A i, j \in DOMAIN hoisted : i # j => hoisted[i] # hoisted[j]
    /\ \A i \in DOMAIN hoisted : hoisted[i] \notin InputSchemaNames

\* ------------------------------------------------------------------------
\* Claims about the enrichment passes
\* ------------------------------------------------------------------------

\* the Models of the run, once the parser has produced them
Nodes ==
    IF DOMAIN enriched = { } THEN { } ELSE DOMAIN models

\* C4: on a Model graph with a self-referential array and a self-referential
\* dictionary every enrichment pass terminates: no run of buildData ends
\* because a pass has used up the call stack
C4_CyclesTerminate ==
    error.message # StackOverflow

\* a pass has assigned no Model its fields more than once in the run
OncePerRun(pass) ==
    \A id \in Nodes : Count(enriched[pass], id) <= 1

OBJECT_EXPORTS ==
    { "interface", "dictionary", "all-of" }

\* the member is a reference to a named Model of object type
isObjectReference(member) ==
    /\ models[member].export = "reference"
    /\ modelsByName(models[member].type) # 0
    /\ models[modelsByName(models[member].type)].export \in OBJECT_EXPORTS

\* the all-of Models with a member that is not an object-typed named
\* reference
InvalidAllOfs ==
    { id \in Nodes :
        /\ models[id].export = "all-of"
        /\ \E i \in DOMAIN models[id].properties :
               ~isObjectReference(models[id].properties[i]) }

\* C6: when an all-of Model has a member that is not an object-typed named
\* reference, buildData fails with the InvalidComposition error naming the
\* Model and returns no data graph
C6_InvalidAllOfFails ==
    /\ pc = "done" => InvalidAllOfs = { }
    /\ (pc = "failed" /\ InvalidAllOfs # { } /\ error.message # StackOverflow)
           => /\ error.message = InvalidComposition
              /\ \E id \in InvalidAllOfs : models[id].name = error.name

\* the all-of Models composite resolution has assigned composedModels
ComposedAllOfs ==
    { id \in Nodes : models[id].export = "all-of" /\ Has(models[id], "composedModels") }

\* the top-level Models the reference members of the Model name, a set
Members(id) ==
    { m \in Range(data.models) :
        \E i \in DOMAIN models[id].properties :
            /\ models[models[id].properties[i]].export = "reference"
            /\ models[models[id].properties[i]].type = models[m].name }

RECURSIVE FlatMembers(_, _)
\* the members, and the members of the all-of members, to the depth
FlatMembers(id, depth) ==
    IF depth = 0 THEN { }
    ELSE Members(id)
         \cup UNION { FlatMembers(m, depth - 1) :
                        m \in { n \in Members(id) : models[n].export = "all-of" } }

\* how often the Model is in the sequence
Occurrences(ids, m) ==
    Cardinality({ i \in DOMAIN ids : ids[i] = m })

SpecOperations ==
    IF DOMAIN enriched = { } THEN { }
    ELSE { i \in DOMAIN data.operations : SpecOperation(data.operations[i]) # << >> }

\* the declared responses of the operation, each with its key
DeclaredResponses(i) ==
    SpecOperation(data.operations[i])[1].responses

\* what the parser reads of a declared response, whatever its code
ParsedResponse(response) ==
    LET parsed == getOperationResponse(<< >>, response, 200)
    IN  DeepModel(parsed, Len(parsed))

\* the declared response is structurally identical to the declared default
\* response
IdenticalToDefault(i, response) ==
    \E k \in DOMAIN DeclaredResponses(i) :
        /\ DeclaredResponses(i)[k].code = S_default
        /\ ParsedResponse(DeclaredResponses(i)[k].response) = ParsedResponse(response)

\* the explicit 200 response of the operation is its default response too
AliasesDefault(i) ==
    \E k \in DOMAIN DeclaredResponses(i) :
        /\ DeclaredResponses(i)[k].code = Code200
        /\ IdenticalToDefault(i, DeclaredResponses(i)[k].response)

\* the code of the entry of a declared response after normalization
NormalizedCode(i, declared) ==
    IF declared.code = S_default THEN 0
    ELSE IF declared.code = Code200 /\ IdenticalToDefault(i, declared.response) THEN 0
    ELSE ResponseCode(declared.code)

\* the entries of op.responses of the code
EntriesOfCode(i, code) ==
    { n \in DOMAIN data.operations[i].responses :
        models[data.operations[i].responses[n]].code = code }

\* the results carry the sentinel exactly when they are what the parser
\* reads of the default response
ResultsNormalized(i) ==
    \A n \in DOMAIN data.operations[i].results :
        LET result == models[data.operations[i].results[n]]
        IN  result.code = 0
                <=> \E k \in DOMAIN DeclaredResponses(i) :
                        /\ DeclaredResponses(i)[k].code = S_default
                        /\ ParsedResponse(DeclaredResponses(i)[k].response).type
                               = result.type
                        /\ ParsedResponse(DeclaredResponses(i)[k].response).description
                               = result.description
                        /\ ParsedResponse(DeclaredResponses(i)[k].response).export
                               = result.export

\* C8 (as stated): an explicit 200 response identical to the default
\* response gets the code 0 in op.responses and op.results and the response
\* list holds no separate entry for the default response; a 200 response that
\* differs from the default keeps 200, and no other code is rewritten
C8_DefaultAliasedAway ==
    pc = "done"
        => \A i \in SpecOperations :
               /\ ResultsNormalized(i)
               /\ \A code \in { 0, 200, 404 } :
                      Cardinality(EntriesOfCode(i, code))
                          = Cardinality({ k \in DOMAIN DeclaredResponses(i) :
                                /\ NormalizedCode(i, DeclaredResponses(i)[k]) = code
                                /\ ~(AliasesDefault(i)
                                       /\ DeclaredResponses(i)[k].code = S_default) })

\* C8 (amended): op.responses holds one entry for every declared response,
\* the default response included; the entry of the default response gets the
\* code 0, the entry of an explicit 200 response gets it exactly when it is
\* identical to the default response, and no other code is rewritten; a
\* result gets the code 0 exactly when it is the default response
C8_DefaultAliased ==
    pc = "done"
        => \A i \in SpecOperations :
               /\ ResultsNormalized(i)
               /\ Len(data.operations[i].responses) = Len(DeclaredResponses(i))
               /\ \A code \in { 0, 200, 404 } :
                      Cardinality(EntriesOfCode(i, code))
                          = Cardinality({ k \in DOMAIN DeclaredResponses(i) :
                                NormalizedCode(i, DeclaredResponses(i)[k]) = code })

\* a run has returned for an operation whose explicit 200 response is its
\* default response: both entries of op.responses and the one result carry
\* the code 0, next to a 404 entry
C8_Witness ==
    /\ pc = "done"
    /\ \E i \in SpecOperations :
           /\ AliasesDefault(i)
           /\ Cardinality(EntriesOfCode(i, 0)) = 2
           /\ Cardinality(EntriesOfCode(i, 404)) = 1
           /\ \E n \in DOMAIN data.operations[i].results :
                  models[data.operations[i].results[n]].code = 0

\* the parameters with a reserved word for a name that have been given
\* their projected names
ReservedParameters ==
    IF DOMAIN enriched = { } THEN { }
    ELSE { p \in UNION { Range(data.operations[i].parameters) :
                           i \in DOMAIN data.operations } :
             /\ models[p].in = "query"
             /\ models[p].prop \in { W_with, W_if, W_class }
             /\ Has(models[p], "pythonName") }

\* C9: the Python property name of the query parameters named with, if and
\* class, raw or escaped by the parser with a leading underscore, differs
\* from the raw identifier, the names of two of them differ, and
\* mutateModelWithAdditionalTypes applied once more changes no projected
\* name or type
C9_NamingDeterminism ==
    \A p \in ReservedParameters :
        /\ models[p].name \in { models[p].prop, << "_" >> \o models[p].prop }
        /\ models[p].pythonName # models[p].prop
        /\ models[p].pythonName \notin PYTHON_KEYWORDS
        /\ \A q \in ReservedParameters :
               models[q].prop # models[p].prop
                   => models[q].pythonName # models[p].pythonName
        /\ mutateModelWithAdditionalTypes(models, p) = models

\* a run has returned with the three parameters, escaped by the parser, and
\* each has its projected names
C9_Witness ==
    /\ pc = "done"
    /\ { models[p].name : p \in ReservedParameters }
           = { << "_" >> \o W_with, << "_" >> \o W_if, << "_" >> \o W_class }

\* the declarations of the parameter in its operation: those of its name and
\* its location
OwnDeclarations(i, p) ==
    IF ~Has(SpecOperation(data.operations[i])[1], "parameters") THEN { }
    ELSE { d \in Range(SpecOperation(data.operations[i])[1].parameters) :
             d.name = models[p].prop /\ d.in = models[p].in }

\* the style of the declaration, form for a query parameter and simple for a
\* header parameter when omitted
DeclaredStyle(d) ==
    IF Has(d, "style") THEN d.style
    ELSE IF d.in = "query" THEN "form" ELSE "simple"

\* the declaration is exploded: true exactly for style form when omitted
DeclaredExplode(d) ==
    IF Has(d, "explode") THEN d.explode ELSE DeclaredStyle(d) = "form"

\* the collection formats the mapping allows for the declaration
MappedFormats(d) ==
    IF DeclaredExplode(d) THEN { "multi" }
    ELSE IF d.in = "header" THEN { "csv" }
    ELSE CASE DeclaredStyle(d) = "spaceDelimited" -> { "ssv" }
           [] DeclaredStyle(d) = "pipeDelimited" -> { "tsv" }
           [] DeclaredStyle(d) \in { "simple", "form" } -> { "csv" }
           [] OTHER -> { "multi", "ssv", "tsv", "csv" }

Registered(name) ==
    IF HasEntry(spec.components.schemas, name)
    THEN << Lookup(spec.components.schemas, name) >>
    ELSE << >>

\* the body given has been hoisted under the name: the name is registered
\* with the inline schema and the body now refers to it; a body that is no
\* inline object or array is as given
BodyHoisted(given, now, name) ==
    IF isInlineBody(given)
    THEN /\ Registered(name) = JsonSchemaOf(given)
         /\ JsonSchemaOf(now) = << SchemaRef(name) >>
    ELSE now = given

\* C11: once the operation bodies are hoisted, every inline JSON response
\* body and JSON request body of type object or array is registered under the
\* name of its operation followed by {code}Response or RequestContent and is
\* replaced by a $ref to the name (GetWidget200Response for the 200 response
\* of getWidget, AGet200Response for GET /a without operationId); the nested
\* hoisting that follows reaches the registered body
C11_BodiesHoisted ==
    /\ pc = "hoistSchemas"
           => \A o \in DOMAIN inSpec.paths :
                  LET given == inSpec.paths[o]
                      now == spec.paths[o].operation
                      name == IF ~Has(given.operation, "operationId")
                              THEN << "A", "G", "e", "t" >>
                              ELSE IF given.operation.operationId = S_getWidget
                              THEN << "G", "e", "t", "W", "i", "d", "g", "e", "t" >>
                              ELSE << "A" >>
                  IN  /\ \A r \in DOMAIN given.operation.responses :
                             BodyHoisted(given.operation.responses[r].response,
                                         now.responses[r].response,
                                         name \o given.operation.responses[r].code
                                              \o S_Response)
                      /\ Has(given.operation, "requestBody")
                             => BodyHoisted(given.operation.requestBody,
                                            now.requestBody,
                                            name \o S_RequestContent)
    /\ (pc = "inlineRefs" /\ Registered(<< "A", "G", "e", "t", "2", "0", "0", "R", "e", "s", "p", "o", "n", "s", "e" >>) # << >>)
           => /\ Registered(<< "A", "G", "e", "t", "2", "0", "0", "R", "e", "s", "p", "o", "n", "s", "e", "B", "E", "n", "u", "m" >>) = << MarkHoisted(EnumSchema) >>
              /\ Registered(<< "A", "G", "e", "t", "2", "0", "0", "R", "e", "s", "p", "o", "n", "s", "e" >>)[1].properties[1].schema
                     = SchemaRef(<< "A", "G", "e", "t", "2", "0", "0", "R", "e", "s", "p", "o", "n", "s", "e", "B", "E", "n", "u", "m" >>)

\* the 200 response of getWidget has been hoisted: GetWidget200Response is
\* registered with the single string property name
C11_Witness ==
    /\ pc = "hoistSchemas"
    /\ inSpec.paths = << GetWidget >>
    /\ Registered(<< "G", "e", "t", "W", "i", "d", "g", "e", "t", "2", "0", "0", "R", "e", "s", "p", "o", "n", "s", "e" >>)
           = << ObjectSchema(P_name, StringSchema) >>

\* ------------------------------------------------------------------------
\* Claims about the files of a run
\* ------------------------------------------------------------------------

\* the segments declared with the id a segment is conditional on
ReferencedBy(i) ==
    IF Has(splitFiles[i].config, "generateConditionallyId")
    THEN { r \in DOMAIN splitFiles :
             /\ Has(splitFiles[r].config, "id")
             /\ splitFiles[r].config.id = splitFiles[i].config.generateConditionallyId }
    ELSE { }

\* writeFileSync has been called for the segment
Written(i) ==
    \E e \in DOMAIN log : log[e].op = "write" /\ log[e].segment = i

SetsOverwrite(i) ==
    Has(splitFiles[i].config, "overwrite") /\ splitFiles[i].config.overwrite = True

\* C12: a segment that is not conditional, or is conditional on a segment
\* declared before it, is written if and only if its file is not under the
\* output path or its config sets overwrite, and the segment it is
\* conditional on, if any, has been written in this run
C12_WriteCondition ==
    [][WriteFile =>
          ((Has(splitFiles[index].config, "generateConditionallyId")
               => /\ ReferencedBy(index) # { }
                  /\ \A r \in ReferencedBy(index) : r < index)
           => ((log' # log)
                  <=> /\ \/ ~existsSync(fs, splitFiles[index].pathRelativeToOutputPath)
                         \/ SetsOverwrite(index)
                      /\ \A r \in ReferencedBy(index) : Written(r)))]_vars

\* C13: when a run fails, it has deleted no file under the output path and
\* has written none
C13_NoPartialOutput ==
    pc = "failed" => log = << >>

\* the paths of the segments written with overwrite set
WrittenWithOverwrite ==
    { splitFiles[i].pathRelativeToOutputPath :
        i \in { j \in DOMAIN splitFiles : Written(j) /\ SetsOverwrite(j) } }

ListedIn(files, manifest) ==
    { line \in Range(SplitOn(files[manifest], "\n", << >>)) : line # << >> }

\* the paths of the applicable manifest: the current one when there is one,
\* the legacy one when there is only that
Applicable(files) ==
    IF MANIFEST_FILE_PATH \in DOMAIN files THEN ListedIn(files, MANIFEST_FILE_PATH)
    ELSE IF LEGACY_MANIFEST_FILE_PATH \in DOMAIN files
         THEN ListedIn(files, LEGACY_MANIFEST_FILE_PATH)
         ELSE { }

\* C15: the cleaning step runs before any file is written, deletes every
\* file the applicable manifest lists and no other, and leaves the other
\* files as they are; no other step deletes a file
C15_CleanupBeforeWriting ==
    [][/\ cleanGeneratedCode
            => /\ \A e \in DOMAIN log : log[e].op # "write"
               /\ DOMAIN fs' = DOMAIN fs \ Applicable(fs)
               /\ \A path \in DOMAIN fs' : fs'[path] = fs[path]
               /\ { log'[e].path : e \in DOMAIN log' } = DOMAIN fs \cap Applicable(fs)
       /\ ~cleanGeneratedCode
            => /\ DOMAIN fs \subseteq DOMAIN fs'
               /\ \A e \in DOMAIN log' \ DOMAIN log : log'[e].op = "write"
       /\ (log = << >> /\ log' # << >> /\ log'[1].op = "write")
            => DOMAIN fs \cap Applicable(fs) = { }]_vars

\* both manifests are there: a.x of the current one is deleted, b.x of the
\* legacy one is not, and the files are written afterwards
C15_Witness ==
    /\ pc = "written"
    /\ LEGACY_MANIFEST_FILE_PATH \in DOMAIN fs
    /\ log[1] = [ op |-> "unlink", path |-> F_a, segment |-> 0 ]
    /\ \A e \in DOMAIN log : log[e].op = "unlink" => log[e].path = F_a
    /\ \E e \in DOMAIN log : log[e].op = "write" /\ log[e].path = F_b

\* C16: a step that deletes or writes a file is taken only when the render
\* of every template of the run is fulfilled
C16_WritesAfterRenders ==
    [][(fs' # fs \/ log' # log)
           => /\ DOMAIN renders = DOMAIN Templates
              /\ \A t \in DOMAIN renders : renders[t] = "fulfilled"]_vars

\* two templates have been rendered, and files deleted and written after
C16_Witness ==
    /\ pc = "written"
    /\ Len(renders) = 2
    /\ \E e \in DOMAIN log : log[e].op = "unlink"
    /\ \E e \in DOMAIN log : log[e].op = "write" /\ log[e].segment = 2

\* a schema with a type other than object that is no string enum
IsInlinedKind(schema) ==
    /\ Has(schema, "type")
    /\ schema.type # "object"
    /\ ~(schema.type = "string" /\ Has(schema, "enum"))

\* C17: after the inlining step no $ref left in the document resolves to a
\* schema with a type other than object that is no string enum; and once
\* the inlined entries are deleted, no inlined $ref names an entry of
\* components.schemas any more
C17_NonObjectRefsInlined ==
    /\ pc = "deleteInlined"
           => \A ref \in AllRefs(spec) :
                  \/ Has(resolveRef(spec, ref), "unresolvable")
                  \/ ~IsInlinedKind(resolveRef(spec, ref))
    /\ pc = "parse"
           => \A ref \in inlinedRefs : Has(resolveRef(spec, ref), "unresolvable")

\* ------------------------------------------------------------------------
\* Claims about resolution
\* ------------------------------------------------------------------------

\* C18: resolveIfRef returns a node that is no reference as it is; the
\* calls leave the document as it was; and resolveIfRef of what
\* resolveIfRef returned is that same node when it is no reference
C18_IdempotentResolution ==
    /\ spec = inSpec
    /\ \A k \in DOMAIN refCalls :
           ~isRef(refCalls[k].possibleRef)
               => refCalls[k].resolved = refCalls[k].possibleRef
    /\ \A k \in DOMAIN refCalls :
           (k > 1 /\ ~isRef(refCalls[k - 1].resolved))
               => /\ refCalls[k].possibleRef = refCalls[k - 1].resolved
                  /\ refCalls[k].resolved = refCalls[k - 1].resolved

\* a reference is resolved to a schema, and the schema is resolved again
C18_Witness ==
    /\ pc = "returned"
    /\ Len(refCalls) = 2
    /\ refCalls[1].possibleRef = SchemaRef(N_A)
    /\ refCalls[1].resolved = ObjectSchema(P_b, StringSchema)
    /\ refCalls[2].resolved = ObjectSchema(P_b, StringSchema)

\* C19: resolveRef, and resolveIfRef of a reference, return the value the
\* document holds at the path of the pointer, whatever it is, and fail
\* with an error that carries the reference when the document holds
\* nothing there
C19_ResolveReturnsStored ==
    (pc \in { "returned", "failed" } /\ isRef(refArg))
        => IF get(spec, splitRef(refArg.ref)) # << >>
           THEN /\ pc = "returned"
                /\ refResult = get(spec, splitRef(refArg.ref))[1]
           ELSE /\ pc = "failed"
                /\ error.name = refArg.ref

\* ------------------------------------------------------------------------
\* Claims about the order of the data
\* ------------------------------------------------------------------------

\* the strings in ascending order, equal ones allowed
Ascending(strings) ==
    \A i, j \in DOMAIN strings : i < j => ~Before(strings[j], strings[i])

\* the strings in ascending order, no two equal
StrictlyAscending(strings) ==
    \A i, j \in DOMAIN strings : i < j => Before(strings[i], strings[j])

\* C20: in the data buildData returns, the operations of every service are
\* in the order of their names, the service Default is the first and the
\* others follow in the order of their names, the models are in the order
\* of their names, and the modelImports of every service and the
\* uniqueImports of every model are in order and hold no name twice
C20_DeterministicOrdering ==
    pc = "done"
        => /\ \A s \in DOMAIN data.services :
                  /\ Ascending([ i \in DOMAIN data.services[s].operations |->
                                   data.services[s].operations[i].name ])
                  /\ StrictlyAscending(data.services[s].modelImports)
                  /\ (s > 1 => data.services[s].name # S_Default)
           /\ Ascending([ s \in DOMAIN data.services |->
                            IF data.services[s].name = S_Default THEN << >>
                            ELSE data.services[s].name ])
           /\ Ascending([ i \in DOMAIN data.models |-> models[data.models[i]].name ])
           /\ \A i \in DOMAIN data.models :
                  Has(models[data.models[i]], "uniqueImports")
                      => StrictlyAscending(models[data.models[i]].uniqueImports)

\* the services were parsed in the order Pet, Admin, Default, and the
\* operations of Pet in the order z, b and the one without operationId
C20_Witness ==
    /\ pc = "done"
    /\ inSpec.paths = TaggedOperations
    /\ [ s \in DOMAIN data.services |-> data.services[s].name ]
           = << S_Default, upperFirst(T_admin), upperFirst(T_pet) >>
    /\ [ i \in DOMAIN data.services[3].operations |->
           data.services[3].operations[i].name ] = << << "b" >>, << "c", "G", "e", "t" >>, << "z" >> >>
    /\ data.services[3].modelImports = << N_A, N_B >>

\* C24: every write of a segment that is conditional on an id comes after a
\* write, in the same run, of a segment declared with that id; a segment
\* whose referenced segment was skipped is not written
C24_ConditionalFollowsWritten ==
    \A e \in DOMAIN log :
        (/\ log[e].op = "write"
         /\ Has(splitFiles[log[e].segment].config, "generateConditionallyId"))
            => \E d \in 1 .. (e - 1) :
                   /\ log[d].op = "write"
                   /\ log[d].segment \in ReferencedBy(log[e].segment)

\* ------------------------------------------------------------------------
\* Claims about the clone of the document
\* ------------------------------------------------------------------------

\* the operation as the caller declared it, with the tag list the compiled
\* document gives it
WithTagsOf(declared, compiled) ==
    IF Has(declared, "tags") /\ Has(compiled, "tags")
    THEN [ declared EXCEPT !.tags = compiled.tags ]
    ELSE declared

\* an operation that declares tags keeps exactly the first
KeepsFirstTag(declared, compiled) ==
    Has(declared, "tags") /\ Len(declared.tags) > 0
        => Has(compiled, "tags") /\ compiled.tags = << declared.tags[1] >>

\* C21: in the document right after the clone every operation that declares
\* tags has exactly its first tag, and apart from the tag lists of the
\* operations the paths and the schemas are those of the caller's document
C21_TagNormalization ==
    pc = "hoistBodies"
        => /\ DOMAIN spec.paths = DOMAIN inSpec.paths
           /\ \A o \in DOMAIN inSpec.paths :
                /\ KeepsFirstTag(inSpec.paths[o].operation, spec.paths[o].operation)
                /\ spec.paths[o]
                     = [ inSpec.paths[o] EXCEPT
                           !.operation = WithTagsOf(@, spec.paths[o].operation) ]
           /\ Has(inSpec, "components") /\ Has(inSpec.components, "schemas")
                => spec.components = inSpec.components

\* a document whose operations declare two tags has been cloned
C21_Cloned ==
    /\ pc = "hoistBodies"
    /\ \E o \in DOMAIN inSpec.paths :
         /\ Has(inSpec.paths[o].operation, "tags")
         /\ Len(inSpec.paths[o].operation.tags) = 2

\* ------------------------------------------------------------------------
\* Claims about the types of the three languages
\* ------------------------------------------------------------------------

\* C22: for every Model of the enriched graph, one of a cycle of links
\* included, toTypeScriptType, toJavaType and toPythonType return a type
\* instead of using up the call stack
C22_TypeProjectionReturns ==
    \A id \in Nodes : ~TypesOverflow(models, id)

\* the primitive Models of type number that have been given their Java type
NumericModels ==
    { id \in Nodes : /\ models[id].export = "generic"
                     /\ models[id].type = T_number
                     /\ Has(models[id], "openapiType")
                     /\ Has(models[id], "javaType") }

\* the Java type of the declared format, where the format is one of the four
JavaTypeOfFormat(format) ==
    CASE format = "int32" -> << "I", "n", "t", "e", "g", "e", "r" >>
      [] format = "int64" -> << "L", "o", "n", "g" >>
      [] format = "float" -> << "F", "l", "o", "a", "t" >>
      [] format = "double" -> << "D", "o", "u", "b", "l", "e" >>

DeclaresWidth(id) ==
    models[id].format \in { "int32", "int64", "float", "double" }

\* C25 (as stated): the Java type of a primitive numeric Model is the one of
\* its declared format, and BigDecimal whenever no format is declared, for
\* the openapi type integer as for the openapi type number
C25_DecimalWithoutFormat ==
    \A id \in NumericModels :
        models[id].javaType
            = IF DeclaresWidth(id) THEN JavaTypeOfFormat(models[id].format)
              ELSE << "B", "i", "g", "D", "e", "c", "i", "m", "a", "l" >>

\* C25 (amended): the Java type of a primitive numeric Model is the one of
\* its declared format; without a format it is Integer for the openapi type
\* integer and BigDecimal for the openapi type number
C25_NumericJavaType ==
    \A id \in NumericModels :
        models[id].javaType
            = IF DeclaresWidth(id) THEN JavaTypeOfFormat(models[id].format)
              ELSE IF models[id].openapiType = "integer"
              THEN << "I", "n", "t", "e", "g", "e", "r" >>
              ELSE << "B", "i", "g", "D", "e", "c", "i", "m", "a", "l" >>

\* a run has returned with an integer and a number without a format and a
\* Model of each of the four formats
C25_Witness ==
    /\ pc = "done"
    /\ { << models[id].openapiType, models[id].format >> : id \in NumericModels }
           = { << "integer", "" >>, << "number", "" >>, << "integer", "int32" >>,
               << "integer", "int64" >>, << "number", "float" >>, << "number", "double" >> }

\* ------------------------------------------------------------------------
\* Claims about the responses
\* ------------------------------------------------------------------------

\* the response Model is classified after the declared response: void
\* without content, the declared media types with content
Classified(id, declared) ==
    IF Has(declared, "content")
    THEN Has(models[id], "mediaTypes") /\ models[id].mediaTypes = MediaTypes(declared)
    ELSE models[id].type = T_void

\* the entries of op.responses and op.results of the operation that carry
\* the code are classified after the declared responses normalized to it
ClassifiedOfCode(i, code) ==
    \A id \in Range(data.operations[i].responses \o data.operations[i].results) :
        models[id].code = code
            => \A k \in DOMAIN DeclaredResponses(i) :
                   NormalizedCode(i, DeclaredResponses(i)[k]) = code
                       => Classified(id, DeclaredResponses(i)[k].response)

\* C23: after normalization every response of op.responses and op.results
\* is void when its declared response has no content and records the
\* declared media types when it has, whatever its code, the sentinel 0 of
\* the default response included
C23_VoidClassification ==
    pc = "done"
        => \A i \in SpecOperations : \A code \in { 0, 200, 404 } : ClassifiedOfCode(i, code)

\* ------------------------------------------------------------------------
\* Claims about the names of hoisted schemas
\* ------------------------------------------------------------------------

\* the composite keywords of the schema A of the caller's document
CompositeKeywords ==
    IF Has(inSpec, "components") /\ Has(inSpec.components, "schemas")
          /\ HasEntry(inSpec.components.schemas, N_A)
    THEN DOMAIN Lookup(inSpec.components.schemas, N_A) \cap { "anyOf", "allOf", "oneOf" }
    ELSE { }

\* the branches of the keyword as declared
DeclaredBranches(keyword) ==
    Lookup(inSpec.components.schemas, N_A)[keyword]

IsTitled(schema) ==
    Has(schema, "title") /\ schema.title # << >>

\* the branches of the keyword that are hoisted and have no title, up to
\* the i-th
UntitledUpTo(keyword, i) ==
    { j \in 1 .. i : isHoisted(DeclaredBranches(keyword)[j]) /\ ~IsTitled(DeclaredBranches(keyword)[j]) }

KeywordPart(keyword) ==
    CASE keyword = "anyOf" -> << "A", "n", "y", "O", "f" >>
      [] keyword = "allOf" -> << "A", "l", "l", "O", "f" >>
      [] keyword = "oneOf" -> << "O", "n", "e", "O", "f" >>

\* the name of the i-th branch: of its title, or of the container, the
\* keyword and the count of the branches without a title before it
NameByUntitledCount(keyword, i) ==
    LET s == DeclaredBranches(keyword)[i]
    IN  (IF IsTitled(s) THEN upperFirst(camelCase(s.title))
         ELSE N_A \o KeywordPart(keyword)
                  \o IndexText(Cardinality(UntitledUpTo(keyword, i)) - 1))
        \o (IF isStringEnum(s) THEN << "E", "n", "u", "m" >> ELSE << >>)

\* C26: after the hoisting of the schemas every hoisted branch of a
\* composite keyword of the schema A has become a reference to a schema
\* named by its title, or by A, the keyword and the number of untitled
\* hoisted branches before it, whatever titled branches precede it, with
\* Enum appended for a string enum
C26_CompositeBranchNames ==
    pc = "inlineRefs"
        => \A keyword \in CompositeKeywords : \A i \in DOMAIN DeclaredBranches(keyword) :
               isHoisted(DeclaredBranches(keyword)[i])
                   => Lookup(spec.components.schemas, N_A)[keyword][i]
                          = SchemaRef(NameByUntitledCount(keyword, i))

\* ------------------------------------------------------------------------
\* Claims about link completion
\* ------------------------------------------------------------------------

\* the Models the data of the run holds: those of data.models and the
\* parameters, responses and results of the operations
RootModels ==
    IF DOMAIN enriched = { } THEN { }
    ELSE Range(data.models)
         \cup UNION { Range(data.operations[i].parameters)
                        \cup Range(data.operations[i].responses)
                        \cup Range(data.operations[i].results) :
                      i \in DOMAIN data.operations }

RECURSIVE HeldBy(_)
\* the Models held by those of the set, through properties and links
HeldBy(ids) ==
    LET next == ids \cup UNION { Range(models[id].properties) : id \in ids }
                    \cup { models[id].link : id \in { h \in ids : models[h].link # 0 } }
    IN  IF next = ids THEN ids ELSE HeldBy(next)

\* the array and dictionary Models
Collections ==
    { id \in HeldBy(RootModels) : models[id].export \in COLLECTION_TYPES }

\* the step is one of ensureModelLinks
InLinkPass ==
    pc \in { "links", "linkParameters" }

\* _ensureModelLinks is entered for the Model, not visited before, with a
\* schema whose items or additionalProperties is a $ref to a named Model
VisitedWithNamedRef(id) ==
    /\ Running("links", "enter")
    /\ Top.model = id
    /\ id \notin visited
    /\ LET f == IF models[id].export = "array" THEN "items" ELSE "additionalProperties"
       IN  /\ Truthy(Top.schema, f)
           /\ isRef(Top.schema[f])
           /\ RefModel(Top.schema[f].ref) # 0

\* the named Model the schema the Model is visited with refers to
NamedByRef(id) ==
    RefModel(Top.schema[IF models[id].export = "array"
                        THEN "items" ELSE "additionalProperties"].ref)

\* the type of a Model is changed only for a Model of data.models whose
\* schema is an object with properties, and to its name
TypeSetToName(id) ==
    models'[id].type # models[id].type
        => /\ id \in Range(data.models)
           /\ models'[id].type = models[id].name
           /\ Has(resolveIfRef(spec, Lookup(spec.components.schemas, models[id].name)),
                  "properties")

C28_PointerRoundTrip ==
    pc = "split" => refResult = << refCalls[1] >>

\* ------------------------------------------------------------------------
\* Claims about projected names
\* ------------------------------------------------------------------------

\* C29: for every name and every entity kind the Python name is no
\* reserved word of Python, and the Java name is no reserved word of Java
\* and is not empty
C29_NoReservedWordSurvives ==
    pc = "named"
        => /\ refResult.pythonName \notin PYTHON_KEYWORDS
           /\ refResult.javaName \notin JAVA_KEYWORDS
           /\ refResult.javaName # << >>

\* ------------------------------------------------------------------------
\* Claims about successive runs
\* ------------------------------------------------------------------------

\* the files the templates of the run emit
Emitted ==
    { joinOutputPath(splitFiles[i].pathRelativeToOutputPath) : i \in DOMAIN splitFiles }

\* the last segment written to the file, in the order of the templates
LastWritten(i) ==
    /\ Written(i)
    /\ \A j \in DOMAIN splitFiles :
           (j > i /\ Written(j))
               => splitFiles[j].pathRelativeToOutputPath
                      # splitFiles[i].pathRelativeToOutputPath

\* C30: when a run that follows another has returned, no file is left that
\* the run before wrote with overwrite set and this run does not emit; the
\* manifest lists only paths this run has written; and every file written
\* holds the text of the last segment for it in the order of the
\* templates, in whatever order the renders have settled
C30_StaleOutputRemoved ==
    pc = "written"
        => /\ refCalls # << >>
               => \A file \in refCalls[Len(refCalls)].overwritten \ Emitted :
                      file \notin DOMAIN fs
           /\ ListedIn(fs, MANIFEST_FILE_PATH)
                  \subseteq { splitFiles[i].pathRelativeToOutputPath :
                                i \in { j \in DOMAIN splitFiles : Written(j) } }
           /\ \A i \in DOMAIN splitFiles :
                  LastWritten(i)
                      => fs[joinOutputPath(splitFiles[i].pathRelativeToOutputPath)]
                             = splitFiles[i].contents

=============================================================================
